---- MODULE Spec2Model ----
(***************************************************************************)
(* Roach2Controls (DataReadout/ChannelizerControls/Roach2Controls.py):     *)
(* frequency planning for the ROACH2 readout.  The session object's        *)
(* attributes are the variables; every method is one action.               *)
(*                                                                         *)
(* Numbers.  Frequencies are integers in a unit in which the DAC           *)
(* resolution dacSampleRate/(nDacSamplesPerCycle*nLutRowsToUse) is 4, so   *)
(* that off-grid frequencies, and exact ties of np.round, both exist.      *)
(* Phases are integers counting quarter turns (p stands for p*pi/2) and    *)
(* every tone has 4 samples per period of the resolution, so cos and sin   *)
(* take the exact values 0, 1, -1.  Attenuations are multiples of 20 dB,   *)
(* so 10**(-dB/20) is an exact power of ten; amplitudes are carried as     *)
(* numerators over the common denominator AmpDen.                          *)
(*                                                                         *)
(* Arrays.  A numpy array is [shape |-> <<n>> or <<r, c>>, flat |-> the    *)
(* elements in C (row-major) order]; None is its own value.                *)
(***************************************************************************)
EXTENDS Integers, Sequences, FiniteSets, TLC

(***************************************************************************)
(* self.params: the instrument configuration read from the parameter file. *)
(***************************************************************************)
nChannels == 6
nChannelsPerStream == 2
dacSampleRate == 16
nDacSamplesPerCycle == 1
nLutRowsToUse == 4
nFftBins == 2
nBitsPerSamplePair == 8
fpgaClockRate == 16
nDdsSamplesPerCycle == 2
nCyclesToLoopToSameChannel == 2
nQdrRows == 4
nBitsPerDdsSamplePair == 4
nBytesPerQdrSample == 1
\* len(params['ddsMemName_regs']): one dds memory per stream
nDdsMems == 3
\* params['lut_dump_buffer_size'], params['baud_rate']
paramLutDumpBufferSize == 4
paramBaudRate == 5
\* the command bytes of the V7: params['mbRecvDACLUT'], ['mbRecvLO'], ['mbChangeAtten']
mbRecvDACLUT == 5
mbRecvLO == 6
mbChangeAtten == 7

(* __init__: the pad values *)
freqPadValue == -1
fftBinPadValue == 0
ddsFreqPadValue == -1

(***************************************************************************)
(* Bounds of the model.                                                    *)
(***************************************************************************)
\* how many entries beyond nChannels a supplied list may have
MaxExtra == 1
\* the largest frequency a caller writes into a grid cell by hand
MaxFreq == 33
\* the largest per-resonator attenuation is 20*MaxAttenStep dB
MaxAttenStep == 2
\* the longest session: the number of calls made on one object
MaxCalls == 3

\* the most zeros the hardware answers to one wait for a ready flag
MaxPolls == 1

None == [none |-> TRUE]

(***************************************************************************)
(* numpy helpers                                                           *)
(***************************************************************************)
Min(a, b) == IF a <= b THEN a ELSE b
Max(a, b) == IF a >= b THEN a ELSE b
Abs(a) == IF a >= 0 THEN a ELSE -a

\* an array of one dimension
Arr1(s) == [shape |-> <<Len(s)>>, flat |-> s]
\* an array of two dimensions, from its elements in C order
Arr2(r, c, s) == [shape |-> <<r, c>>, flat |-> s]

\* len(a): the size of the first dimension
PyLen(a) == a.shape[1]
\* the number of elements of one row (1 for a 1-d array)
RowSize(a) == IF Len(a.shape) = 1 THEN 1 ELSE a.shape[2]
\* np.ravel(a): all elements, in C order
Ravel(a) == a.flat
\* a[:k]: the first k entries along the first dimension
TakeFirst(a, k) ==
    LET n == Min(k, PyLen(a))
    IN  [shape |-> [a.shape EXCEPT ![1] = n],
         flat  |-> SubSeq(a.flat, 1, n * RowSize(a))]

\* np.insert(s, ind, v) on a 1-d sequence: v goes before position ind (0-based)
NpInsert(s, ind, v) ==
    LET i == IF ind < 0 THEN ind + Len(s) ELSE ind
    IN  SubSeq(s, 1, i) \o <<v>> \o SubSeq(s, i + 1, Len(s))

\* ceil(a / b) for b > 0
CeilDiv(a, b) == (a + b - 1) \div b

\* np.round(a / b) for b > 0: nearest integer, ties to the even one
RoundDivUpward(a, b) == (a \div b) + 1
RoundDiv(a, b) ==
    LET q == a \div b
        r == a % b
    IN  IF 2 * r < b THEN q
        ELSE IF 2 * r > b THEN q + 1
        ELSE IF q % 2 = 0 THEN q ELSE q + 1

\* np.reshape(s, (-1, cols), order) of a 1-d sequence whose length cols divides
NpReshape(s, cols, order) ==
    LET rows == Len(s) \div cols
    IN  Arr2(rows, cols,
             [k \in 1..(rows * cols) |->
                 LET i == (k - 1) \div cols
                     j == (k - 1) % cols
                 IN  IF order = "F" THEN s[j * rows + i + 1] ELSE s[k]])

\* cell (i, j), 0-based, of a 2-d array
Cell(g, i, j) == g.flat[i * g.shape[2] + j + 1]
Rows(g) == g.shape[1]
Cols(g) == g.shape[2]

RECURSIVE CountEq(_, _)
CountEq(s, v) ==
    IF s = <<>> THEN 0
    ELSE (IF Head(s) = v THEN 1 ELSE 0) + CountEq(Tail(s), v)

RECURSIVE SelectNe(_, _)
\* the elements of s different from v, in order
SelectNe(s, v) ==
    IF s = <<>> THEN <<>>
    ELSE (IF Head(s) = v THEN <<>> ELSE <<Head(s)>>) \o SelectNe(Tail(s), v)

(***************************************************************************)
(* The session                                                             *)
(***************************************************************************)
VARIABLES
    LOFreq,             \* self.LOFreq: None until setLOFreq, then [val |-> f]
    freqList,           \* self.freqList
    freqChannels,       \* self.freqChannels
    fftBinIndChannels,  \* self.fftBinIndChannels
    attenList,          \* self.attenList
    dacQuantizedFreqList, \* self.dacQuantizedFreqList
    dacPhaseList,       \* self.dacPhaseList
    dacFreqComb,        \* self.dacFreqComb: [I |-> real parts, Q |-> imaginary parts]
    ddsQuantizedFreqList, \* self.ddsQuantizedFreqList
    ddsPhaseList,       \* self.ddsPhaseList
    ddsIStreamsList,    \* self.ddsIStreamsList
    ddsQStreamsList,    \* self.ddsQStreamsList
    v7_ready,           \* self.v7_ready
    lut_dump_buffer_size, \* self.lut_dump_buffer_size
    fpga,               \* self.fpga: None until connect, then the registers' values
    fpgaLog,            \* the reads and writes the last hardware operation made
    last,               \* the call just made: its arguments and its outcome
    nCalls              \* how many calls the session has made

vars == <<LOFreq, freqList, freqChannels, fftBinIndChannels, attenList,
          dacQuantizedFreqList, dacPhaseList, dacFreqComb, ddsQuantizedFreqList,
          ddsPhaseList, ddsIStreamsList, ddsQStreamsList, v7_ready,
          lut_dump_buffer_size, fpga, fpgaLog, last, nCalls>>

dacVars == <<attenList, dacQuantizedFreqList, dacPhaseList, dacFreqComb>>
ddsVars == <<ddsQuantizedFreqList, ddsPhaseList, ddsIStreamsList, ddsQStreamsList>>
hwVars == <<v7_ready, lut_dump_buffer_size, fpga, fpgaLog>>

nStreams == nChannels \div nChannelsPerStream

(***************************************************************************)
(* generateResonatorChannels                                               *)
(***************************************************************************)
\* number of empty elements to pad
PadNumNoOuterMod(n) == nStreams - (n % nStreams)
PadNum(n) == (nStreams - (n % nStreams)) % nStreams

RECURSIVE InsertPads(_, _, _)
\* for i in range(padNum): insert the pad value at len - i*ceil(len/nStreams)
InsertPads(s, i, padNum) ==
    IF i >= padNum THEN s
    ELSE LET ind == Len(s) - i * CeilDiv(Len(s), nStreams)
         IN  InsertPads(NpInsert(s, ind, freqPadValue), i + 1, padNum)

\* np.append(freqChannels, [padValue]*padNum)
AppendPads(s, padNum) == s \o [k \in 1..padNum |-> freqPadValue]

\* an invalid order is replaced by the default
EffectiveOrder(order) == IF order \in {"F", "C", "A"} THEN order ELSE "F"

\* the list kept after the capacity check
Truncate(a) == IF PyLen(a) > nChannels THEN TakeFirst(a, nChannels) ELSE a

PadNothing(s, order) == s
PadAtEnd(s, order) == AppendPads(s, PadNum(Len(s)))
Pad(s, order) ==
    IF order = "F" THEN InsertPads(s, 0, PadNum(Len(s)))
    ELSE AppendPads(s, PadNum(Len(s)))

\* the attributes and return value of generateResonatorChannels(freqList, order)
ResonatorChannels(arg, order) ==
    LET ord   == EffectiveOrder(order)
        kept  == Truncate(arg)
        fl    == Ravel(kept)
    IN  [warned       |-> PyLen(arg) > nChannels,
         freqList     |-> Arr1(fl),
         freqChannels |-> NpReshape(Pad(fl, ord), nStreams, ord)]

\* frequency lists a caller supplies: n frequencies, 3 apart, from base
FreqSeq(base, n) == [k \in 1..n |-> base + 3 * (k - 1)]
BaseFreqs == {16, 21}
Lists1D == {Arr1(FreqSeq(b, n)) : b \in BaseFreqs, n \in 0..(nChannels + MaxExtra)}
\* the same handed over as a 2-d array of r rows
Lists2D == {Arr2(r, c, FreqSeq(b, r * c)) :
               b \in BaseFreqs, r \in 1..2, c \in 1..(nStreams + MaxExtra)}
Orders == {"F", "C", "A", "X"}

generateResonatorChannels(lists, orders) ==
    \E arg \in lists, order \in orders :
        \E res \in {ResonatorChannels(arg, order)} :
            /\ freqList' = res.freqList
            /\ freqChannels' = res.freqChannels
            /\ last' = [op |-> "generateResonatorChannels", freqList |-> arg,
                        order |-> order, err |-> "none",
                        warns |-> IF res.warned THEN {"CapacityExceeded"} ELSE {},
                        ret |-> res.freqChannels]
            /\ UNCHANGED <<LOFreq, fftBinIndChannels, dacVars, ddsVars>>
            /\ UNCHANGED hwVars

(***************************************************************************)
(* setLOFreq                                                               *)
(***************************************************************************)
LOValues == {0, 16, 20, 40}

setLOFreq(los) ==
    \E lo \in los :
        /\ LOFreq' = [val |-> lo]
        /\ last' = [op |-> "setLOFreq", err |-> "none", warns |-> {}]
        /\ UNCHANGED <<freqList, freqChannels, fftBinIndChannels, dacVars, ddsVars>>
        /\ UNCHANGED hwVars

(***************************************************************************)
(* generateFftChanSelection                                                *)
(***************************************************************************)
\* dacSampleRate / (nDacSamplesPerCycle * nLutRowsToUse)
dacFreqResolution == dacSampleRate \div (nDacSamplesPerCycle * nLutRowsToUse)
\* dacSampleRate / nFftBins
fftBinSpacing == dacSampleRate \div nFftBins

\* x[np.where(x < 0)] += rate: one step of aliasing, for negative entries only
AliasNever(x, rate) == x
AliasOnce(x, rate) == IF x < 0 THEN x + rate ELSE x

\* np.round(x / resolution) * resolution
Quantize(x, resolution) == RoundDiv(x, resolution) * resolution

\* the frequency the DAC makes for resonator frequency f, quantized
DacQuantizedFreq(f, lo) ==
    Quantize(AliasOnce(f - lo, dacSampleRate), dacFreqResolution)

\* the cells the pad override rewrites: freqChannels < 0
IsPad(f) == f < 0

\* the bin index of one cell
FftBinIndex(f, lo) ==
    IF IsPad(f) THEN fftBinPadValue
    ELSE RoundDiv(DacQuantizedFreq(f, lo), fftBinSpacing)

\* the bin index of every cell: numpy works cell by cell and keeps the shape
FftChanSelection(fc, lo) ==
    [shape |-> fc.shape,
     flat  |-> [k \in 1..Len(fc.flat) |-> FftBinIndex(fc.flat[k], lo)]]

generateFftChanSelection(grids) ==
    \E arg \in grids \cup {None} :
        LET fc  == IF arg = None THEN freqChannels ELSE arg
            err == IF fc = None \/ LOFreq = None THEN "AttributeError" ELSE "none"
        IN  \E ret \in {IF err = "none" THEN FftChanSelection(fc, LOFreq.val) ELSE None} :
            /\ fftBinIndChannels' = IF err = "none" THEN ret ELSE fftBinIndChannels
            /\ last' = [op |-> "generateFftChanSelection", freqChannels |-> arg,
                        used |-> fc, err |-> err, warns |-> {}, ret |-> ret]
            /\ UNCHANGED <<LOFreq, freqList, freqChannels, dacVars, ddsVars>>
            /\ UNCHANGED hwVars

(***************************************************************************)
(* generateTones                                                           *)
(***************************************************************************)
\* cos and sin of u quarter turns
Cos4(u) == CASE u % 4 = 0 -> 1 [] u % 4 = 2 -> -1 [] OTHER -> 0
Sin4(u) == CASE u % 4 = 1 -> 1 [] u % 4 = 3 -> -1 [] OTHER -> 0

\* Tones of nSamples samples, nSamples dividing 4.  The quantized frequency is
\* m * freqResolution and sample k is taken at t = k / sampleRate, so that
\* 2*pi*f*t is m*k*(4/nSamples) quarter turns.  amplitudeList and the I and Q
\* values share the caller's denominator.  The lists have equal lengths here.
Tones(fl, sampleRate, nSamples, amplitudeList, phaseList) ==
    LET freqResolution == sampleRate \div nSamples
        m == [i \in 1..Len(fl) |-> RoundDiv(fl[i], freqResolution)]
    IN  [I |-> [i \in 1..Len(fl) |->
                  [k \in 1..nSamples |->
                      amplitudeList[i] *
                          Cos4(m[i] * (k - 1) * (4 \div nSamples) + phaseList[i])]],
         Q |-> [i \in 1..Len(fl) |->
                  [k \in 1..nSamples |->
                      amplitudeList[i] *
                          Sin4(m[i] * (k - 1) * (4 \div nSamples) + phaseList[i])]],
         quantizedFreqList |-> [i \in 1..Len(fl) |-> m[i] * freqResolution],
         phaseList |-> phaseList]

\* generateTones(freqList, nSamples, sampleRate, amplitudeList, phaseList) as a
\* caller sees it: the defaults, the length check, then the tones.
\* rnd are the phases np.random.uniform draws if phaseList is None.
ToneDictLenient(fArg, nSamples, sampleRate, aArg, pArg, rnd) ==
    LET fl            == fArg.flat
        amplitudeList == IF aArg = None THEN [i \in 1..Len(fl) |-> 1] ELSE aArg.flat
        phaseList     == IF pArg = None THEN rnd ELSE pArg.flat
    IN  IF Len(fl) > Len(amplitudeList) \/ Len(fl) > Len(phaseList)
        THEN [err |-> "LengthMismatch", ret |-> None]
        ELSE [err |-> "none",
              ret |-> Tones(fl, sampleRate, nSamples, amplitudeList, phaseList)]
ToneDict(fArg, nSamples, sampleRate, aArg, pArg, rnd) ==
    LET fl            == fArg.flat
        amplitudeList == IF aArg = None THEN [i \in 1..Len(fl) |-> 1] ELSE aArg.flat
        phaseList     == IF pArg = None THEN rnd ELSE pArg.flat
    IN  IF Len(fl) # Len(amplitudeList) \/ Len(fl) # Len(phaseList)
        THEN [err |-> "LengthMismatch", ret |-> None]
        ELSE [err |-> "none",
              ret |-> Tones(fl, sampleRate, nSamples, amplitudeList, phaseList)]

\* calls: the argument lists <<freqList, nSamples, sampleRate, amplitudeList,
\* phaseList>>; drawn: what np.random.uniform may return, as <<first phase, step>>
generateTones(calls, drawn) ==
    \E c \in calls, d \in drawn :
        LET rnd == [k \in 1..PyLen(c[1]) |-> (d[1] + d[2] * (k - 1)) % 4]
        IN  \E res \in {ToneDict(c[1], c[2], c[3], c[4], c[5], rnd)} :
            /\ (c[5] # None => d = <<0, 0>>)
            /\ last' = [op |-> "generateTones", freqList |-> c[1], nSamples |-> c[2],
                        sampleRate |-> c[3], amplitudeList |-> c[4],
                        phaseList |-> c[5], err |-> res.err, warns |-> {},
                        ret |-> res.ret]
            /\ UNCHANGED <<LOFreq, freqList, freqChannels, fftBinIndChannels,
                           dacVars, ddsVars>>
            /\ UNCHANGED hwVars

(***************************************************************************)
(* generateDacComb                                                         *)
(***************************************************************************)
RECURSIVE Pow10(_)
Pow10(e) == IF e <= 0 THEN 1 ELSE 10 * Pow10(e - 1)

RECURSIVE Pow2(_)
Pow2(e) == IF e <= 0 THEN 1 ELSE 2 * Pow2(e - 1)

RECURSIVE SumSeq(_)
SumSeq(s) == IF s = <<>> THEN 0 ELSE Head(s) + SumSeq(Tail(s))

RECURSIVE MaxAbs(_)
MaxAbs(s) == IF s = <<>> THEN 0 ELSE Max(Abs(Head(s)), MaxAbs(Tail(s)))

\* int(np.round(2**(nBitsPerSampleComponent - 1) - 1)), 1 bit for sign
maxAmp == Pow2(nBitsPerSamplePair \div 2 - 1) - 1

\* the common denominator of the amplitudes
AmpDen == Pow10(MaxAttenStep)
\* maxAmp * 10**(-(resAtten - globalDacAtten)/20.), as a numerator over AmpDen
Amplitude(resAtten, globalDacAtten) ==
    maxAmp * Pow10(MaxAttenStep - (resAtten - globalDacAtten) \div 20)

\* np.sum(rows, axis=0) over AmpDen, rounded
SumRound(rows, nSamples) ==
    [k \in 1..nSamples |->
        RoundDiv(SumSeq([i \in 1..Len(rows) |-> rows[i][k]]), AmpDen)]

\* np.any(resAttenList < globalDacAtten)
AttenInfeasibleOrEqual(attens, globalDacAtten) ==
    \E k \in 1..Len(attens) : attens[k] <= globalDacAtten
AttenInfeasible(attens, globalDacAtten) ==
    \E k \in 1..Len(attens) : attens[k] < globalDacAtten

\* highestVal > maxAmp
RangeNeverExceeded(highestVal) == FALSE
RangeExceeded(highestVal) == highestVal > maxAmp

\* n**2 times the variance of s (np.std squared)
VarNum(s) ==
    Len(s) * SumSeq([k \in 1..Len(s) |-> s[k] * s[k]]) - SumSeq(s) * SumSeq(s)

\* (erfinv((n - 0.1)/n) * sqrt(2))**2 for n = 4 samples, as SigSqNum / SigSqDen
SigSqNum == 50239
SigSqDen == 10000
\* highestVal > expectedHighestVal_sig * max(std(I), std(Q)), both sides squared
PhaseSum(highestVal, iValues, qValues) ==
    highestVal * highestVal * Len(iValues) * Len(iValues) * SigSqDen
        > SigSqNum * Max(VarNum(iValues), VarNum(qValues))

\* 10**(1/20.) as OneDbNum / OneDbDen
OneDbNum == 112202
OneDbDen == 100000
\* 1.0*maxAmp/highestVal > 10**(1/20.), for highestVal > 0
Underutilized(highestVal) == maxAmp * OneDbDen > OneDbNum * highestVal

\* the length check on the phases, bypassed when none are given
PhaseLengthUnchecked(fl, phaseArg) == TRUE
PhaseLengthOk(fl, phaseArg) == phaseArg = None \/ Len(fl) = PyLen(phaseArg)

\* generateDacComb(freqList, resAttenList, globalDacAtten, phaseList), where
\* rnd are the phases np.random.uniform draws if phaseList is None.
\* stage: how far the call got before it stopped.
\*   0 nothing stored; 1 attenList and freqList stored; 2 the comb stored too
DacComb(fArg, aArg, globalDacAtten, pArg, rnd) ==
    LET f0     == IF fArg = None THEN freqList ELSE fArg
        f1     == IF f0 = None THEN None ELSE Truncate(f0)
        fl     == IF f1 = None THEN <<>> ELSE Ravel(f1)
        a0     == IF aArg = None THEN Arr1([k \in 1..Len(fl) |-> 20]) ELSE aArg
        al     == Ravel(Truncate(a0))
        w1     == (IF f0 # None /\ PyLen(f0) > nChannels THEN {"CapacityExceeded"} ELSE {})
                  \cup (IF aArg = None THEN {"DefaultAttenuation"} ELSE {})
                  \cup (IF PyLen(a0) > nChannels THEN {"CapacityExceeded"} ELSE {})
        phases == IF pArg = None THEN rnd ELSE Ravel(pArg)
        amps   == [k \in 1..Len(fl) |-> Amplitude(al[k], globalDacAtten)]
        nSamples == nDacSamplesPerCycle * nLutRowsToUse
        dacFreqList == [k \in 1..Len(fl) |->
                           AliasOnce(fl[k] - LOFreq.val, dacSampleRate)]
        toneDict == Tones(dacFreqList, dacSampleRate, nSamples, amps, phases)
        iValues == SumRound(toneDict.I, nSamples)
        qValues == SumRound(toneDict.Q, nSamples)
        highestVal == Max(MaxAbs(iValues), MaxAbs(qValues))
        early  == [stage |-> 0, warns |-> w1, ret |-> None]
        mid    == [stage |-> 1, warns |-> w1, ret |-> None,
                   attenList |-> Arr1(al), freqList |-> Arr1(fl)]
        late   == [stage |-> 2, warns |-> w1, ret |-> None,
                   attenList |-> Arr1(al), freqList |-> Arr1(fl),
                   dacQuantizedFreqList |-> toneDict.quantizedFreqList,
                   dacPhaseList |-> toneDict.phaseList,
                   dacFreqComb |-> [I |-> iValues, Q |-> qValues]]
        wPh    == IF PhaseSum(highestVal, iValues, qValues)
                  THEN {"PhaseSumWarning"} ELSE {}
    IN  IF f0 = None THEN [early EXCEPT !.warns = {}] @@ [err |-> "AttributeError"]
        ELSE IF Len(fl) # Len(al) THEN early @@ [err |-> "LengthMismatch"]
        ELSE IF ~PhaseLengthOk(fl, pArg) THEN early @@ [err |-> "LengthMismatch"]
        ELSE IF AttenInfeasible(al, globalDacAtten)
             THEN early @@ [err |-> "AttenuationInfeasible"]
        ELSE IF LOFreq = None THEN mid @@ [err |-> "MissingLocalOscillator"]
        ELSE IF Len(fl) = 0
             \* np.sum of no rows is a 0-d zero: len(iValues) raises
             THEN [late EXCEPT !.dacFreqComb = [I |-> <<0>>, Q |-> <<0>>]]
                      @@ [err |-> "TypeError"]
        ELSE IF RangeExceeded(highestVal)
             THEN [late EXCEPT !.warns = w1 \cup wPh]
                      @@ [err |-> "DynamicRangeExceeded"]
        ELSE IF highestVal = 0
             \* maxAmp/highestVal is inf, and int(np.floor(inf)) raises
             THEN [late EXCEPT !.warns = w1 \cup wPh] @@ [err |-> "OverflowError"]
        ELSE [late EXCEPT
                 !.warns = w1 \cup wPh \cup
                     (IF Underutilized(highestVal)
                      THEN {"UnderutilizedRangeWarning"} ELSE {}),
                 !.ret = [I |-> iValues, Q |-> qValues,
                          quantizedFreqList |-> toneDict.quantizedFreqList]]
                 @@ [err |-> "none"]

\* attenuations in dB: the first resonator's and the others'
AttenValues == {20 * k : k \in 0..MaxAttenStep}
AttenSeq(a, b, n) == [k \in 1..n |-> IF k = 1 THEN a ELSE b]
\* phases in quarter turns: the first tone's, and the step from tone to tone
PhaseSeq(p, s, n) == [k \in 1..n |-> (p + s * (k - 1)) % 4]

\* calls: the argument lists <<freqList, resAttenList, globalDacAtten, phaseList>>;
\* drawn: what np.random.uniform may return, as <<first phase, step>>
generateDacComb(calls, drawn) ==
    \E c \in calls, d \in drawn :
        LET fArg == c[1]
            aArg == c[2]
            g    == c[3]
            pArg == c[4]
            n   == IF fArg # None THEN Len(Ravel(Truncate(fArg)))
                   ELSE IF freqList # None THEN Len(Ravel(Truncate(freqList)))
                   ELSE 0
            rnd == PhaseSeq(d[1], d[2], n)
        IN  \E res \in {DacComb(fArg, aArg, g, pArg, rnd)} :
            /\ (pArg # None => d = <<0, 0>>)
            /\ attenList' = IF res.stage >= 1 THEN res.attenList ELSE attenList
            /\ freqList' = IF res.stage >= 1 THEN res.freqList ELSE freqList
            /\ dacQuantizedFreqList' = IF res.stage >= 2
                   THEN res.dacQuantizedFreqList ELSE dacQuantizedFreqList
            /\ dacPhaseList' = IF res.stage >= 2 THEN res.dacPhaseList ELSE dacPhaseList
            /\ dacFreqComb' = IF res.stage >= 2 THEN res.dacFreqComb ELSE dacFreqComb
            /\ last' = [op |-> "generateDacComb", freqList |-> fArg,
                        resAttenList |-> aArg, globalDacAtten |-> g,
                        phaseList |-> pArg, err |-> res.err, warns |-> res.warns,
                        ret |-> res.ret]
            /\ UNCHANGED <<LOFreq, freqChannels, fftBinIndChannels, ddsVars>>
            /\ UNCHANGED hwVars

(***************************************************************************)
(* generateDdsTones                                                        *)
(***************************************************************************)
\* nDdsSamplesPerCycle * fpgaClockRate / nCyclesToLoopToSameChannel
ddsSampleRate == (nDdsSamplesPerCycle * fpgaClockRate) \div nCyclesToLoopToSameChannel
\* nDdsSamplesPerCycle * nQdrRows / nCyclesToLoopToSameChannel
nDdsSamples == (nDdsSamplesPerCycle * nQdrRows) \div nCyclesToLoopToSameChannel
ddsFreqResolution == ddsSampleRate \div nDdsSamples
\* int(np.round(2**(nBitsPerSampleComponent - 1) - 1)) for the dds samples
maxValue == Pow2(nBitsPerDdsSamplePair \div 2 - 1) - 1

\* numpy broadcasting of two grids of nStreams columns
Broadcastable(a, b) == Rows(a) = Rows(b) \/ Rows(a) = 1 \/ Rows(b) = 1
BroadcastRows(a, b) == IF Rows(a) = 1 THEN Rows(b) ELSE Rows(a)
\* cell (i, j) of a grid stretched to more rows
BCell(g, i, j) == IF Rows(g) = 1 THEN Cell(g, 0, j) ELSE Cell(g, i, j)

\* the residual without the aliasing step of line 257
DdsQuantizedFreqNoAlias(f, bin, lo) ==
    Quantize(DacQuantizedFreq(f, lo) - bin * fftBinSpacing, ddsFreqResolution)

\* ddsQuantizedFreqList, before the pad override
DdsQuantizedFreq(f, bin, lo) ==
    Quantize(AliasOnce(DacQuantizedFreq(f, lo) - bin * fftBinSpacing, ddsSampleRate),
             ddsFreqResolution)

\* ddsQuantizedFreqList[np.where(freqChannels < 0)] = self.ddsFreqPadValue
DdsQuantizedFreqList(fc, bins, lo) ==
    LET rows == BroadcastRows(fc, bins)
    IN  Arr2(rows, Cols(fc),
             [k \in 1..(rows * Cols(fc)) |->
                 LET i == (k - 1) \div Cols(fc)
                     j == (k - 1) % Cols(fc)
                 IN  IF i < Rows(fc) /\ Cell(fc, i, j) < 0 THEN ddsFreqPadValue
                     ELSE DdsQuantizedFreq(BCell(fc, i, j), BCell(bins, i, j), lo)])

RECURSIVE SelectRows(_, _, _, _)
\* np.where(dacQuantizedFreqList[:, j] > 0): the selected rows of stream j, 0-based
SelectRows(fc, lo, j, i) ==
    IF i >= Rows(fc) THEN <<>>
    ELSE (IF DacQuantizedFreq(Cell(fc, i, j), lo) > 0 THEN <<i>> ELSE <<>>)
         \o SelectRows(fc, lo, j, i + 1)

\* the rows of stream j that get a tone
ToneRowsAll(fc, lo, j) == [t \in 1..Rows(fc) |-> t - 1]
ToneRows(fc, lo, j) == SelectRows(fc, lo, j, 0)

\* np.append(iValList, freqPad, 0): rows of zeros up to nChannelsPerStream rows
PadChannels(vals) ==
    vals \o [t \in 1..(nChannelsPerStream - Len(vals)) |-> [k \in 1..nDdsSamples |-> 0]]

\* the elements of a 2-d array, row after row
FlattenRows(rows, width) ==
    [p \in 1..(Len(rows) * width) |-> rows[((p - 1) \div width) + 1][((p - 1) % width) + 1]]

\* np.reshape(flat, (d0, -1, d2)): element [a][b][k] is flat[(a*d1 + b)*d2 + k]
Reshape3(flat, d0, d2) ==
    LET d1 == Len(flat) \div (d0 * d2)
    IN  [a \in 1..d0 |-> [b \in 1..d1 |-> [k \in 1..d2 |->
            flat[((a - 1) * d1 + (b - 1)) * d2 + k]]]]

\* np.swapaxes(arr, 0, 1)
SwapAxes01(arr) == [b \in 1..Len(arr[1]) |-> [a \in 1..Len(arr) |-> arr[a][b]]]

\* arr.flatten('C') of a 3-d array
Flatten3(arr) ==
    LET d1 == Len(arr[1])
        d2 == Len(arr[1][1])
    IN  [p \in 1..(Len(arr) * d1 * d2) |->
            arr[((p - 1) \div (d1 * d2)) + 1]
               [(((p - 1) \div d2) % d1) + 1]
               [((p - 1) % d2) + 1]]

\* lines 289-303: pad with missing resonators, reshape to
\* (nChannelsPerStream, -1, nDdsSamplesPerCycle), swap the first two axes, flatten
InterweaveChannelMajor(vals) == FlattenRows(PadChannels(vals), nDdsSamples)
Interweave(vals) ==
    Flatten3(SwapAxes01(Reshape3(FlattenRows(PadChannels(vals), nDdsSamples),
                                 nChannelsPerStream, nDdsSamplesPerCycle)))

\* np.round(toneDict['I'] * maxValue): the tones have amplitude 1
ScaleTones(rows) ==
    [t \in 1..Len(rows) |-> [k \in 1..Len(rows[t]) |-> rows[t][k] * maxValue]]

\* toneDict of stream j (0-based): one tone per selected row, from the quantized
\* dds frequencies and the phases of those rows
StreamTones(fc, ddsQ, ph, lo, j) ==
    LET sel == ToneRows(fc, lo, j)
    IN  Tones([t \in 1..Len(sel) |-> Cell(ddsQ, sel[t], j)],
              ddsSampleRate, nDdsSamples,
              [t \in 1..Len(sel) |-> 1],
              [t \in 1..Len(sel) |-> Cell(ph, sel[t], j)])

\* generateDdsTones(freqChannels, fftBinIndChannels, phaseList)
\* stage: 0 nothing stored; 1 freqChannels stored; 2 fftBinIndChannels too;
\*        3 ddsQuantizedFreqList too; 4 the phases and streams too
DdsTones(fcArg, binArg, pArg) ==
    LET fc    == IF fcArg = None THEN freqChannels ELSE fcArg
        bins  == IF binArg = None THEN fftBinIndChannels ELSE binArg
        ph0   == IF pArg = None
                 THEN Arr2(Rows(fc), Cols(fc), [k \in 1..Len(fc.flat) |-> 0])
                 ELSE pArg
        lo    == LOFreq.val
        ddsQ  == DdsQuantizedFreqList(fc, bins, lo)
        \* sel[j + 1]: the rows of stream j that get a tone
        sel   == [j \in 1..nStreams |-> ToneRows(fc, lo, j - 1)]
        tone  == [j \in 1..nStreams |-> StreamTones(fc, ddsQ, ph0, lo, j - 1)]
        \* phaseList[:len(toneDict['phaseList']), j] = toneDict['phaseList']
        phAfter == Arr2(Rows(ph0), Cols(ph0),
                        [k \in 1..Len(ph0.flat) |->
                            LET i == (k - 1) \div Cols(ph0)
                                j == (k - 1) % Cols(ph0)
                            IN  IF j < nStreams /\ i < Len(sel[j + 1])
                                THEN Cell(ph0, sel[j + 1][i + 1], j)
                                ELSE ph0.flat[k]])
        phaseRowsOk == \A j \in 1..nStreams :
                          \A t \in 1..Len(sel[j]) : sel[j][t] < Rows(ph0)
        base  == [warns |-> {}, ret |-> None, phaseAfter |-> pArg]
    IN  IF fc = None THEN base @@ [stage |-> 0, err |-> "AttributeError"]
        ELSE IF Len(Ravel(fc)) > nChannels
             THEN base @@ [stage |-> 0, err |-> "CapacityExceeded"]
        ELSE IF bins = None THEN base @@ [stage |-> 1, err |-> "AttributeError"]
        ELSE IF Len(Ravel(bins)) > nChannels
             THEN base @@ [stage |-> 1, err |-> "CapacityExceeded"]
        ELSE IF LOFreq = None
             THEN base @@ [stage |-> 2, err |-> "MissingLocalOscillator"]
        ELSE IF ~Broadcastable(fc, bins)
             THEN base @@ [stage |-> 2, err |-> "ShapeMismatch"]
        ELSE IF ~phaseRowsOk
             THEN base @@ [stage |-> 3, err |-> "IndexError",
                           ddsQuantizedFreqList |-> ddsQ]
        ELSE LET iStreamList == [j \in 1..nStreams |->
                                    Interweave(ScaleTones(tone[j].I))]
                 qStreamList == [j \in 1..nStreams |->
                                    Interweave(ScaleTones(tone[j].Q))]
             IN  [stage |-> 4, err |-> "none", warns |-> {},
                  ddsQuantizedFreqList |-> ddsQ,
                  ddsPhaseList |-> phAfter,
                  ddsIStreamsList |-> iStreamList,
                  ddsQStreamsList |-> qStreamList,
                  phaseAfter |-> IF pArg = None THEN None ELSE phAfter,
                  ret |-> [iStreamList |-> iStreamList, qStreamList |-> qStreamList,
                           quantizedFreqList |-> ddsQ, phaseList |-> phAfter]]

\* calls: the argument lists <<freqChannels, fftBinIndChannels, phaseList>>
generateDdsTones(calls) ==
    \E c \in calls :
        LET fcArg  == c[1]
            binArg == c[2]
            pArg   == c[3]
        IN  \E res \in {DdsTones(fcArg, binArg, pArg)} :
            /\ freqChannels' = IF res.stage >= 1
                   THEN (IF fcArg = None THEN freqChannels ELSE fcArg) ELSE freqChannels
            /\ fftBinIndChannels' = IF res.stage >= 2
                   THEN (IF binArg = None THEN fftBinIndChannels ELSE binArg)
                   ELSE fftBinIndChannels
            /\ ddsQuantizedFreqList' = IF res.stage >= 3
                   THEN res.ddsQuantizedFreqList ELSE ddsQuantizedFreqList
            /\ ddsPhaseList' = IF res.stage >= 4 THEN res.ddsPhaseList ELSE ddsPhaseList
            /\ ddsIStreamsList' = IF res.stage >= 4
                   THEN res.ddsIStreamsList ELSE ddsIStreamsList
            /\ ddsQStreamsList' = IF res.stage >= 4
                   THEN res.ddsQStreamsList ELSE ddsQStreamsList
            /\ last' = [op |-> "generateDdsTones", freqChannels |-> fcArg,
                        fftBinIndChannels |-> binArg, phaseList |-> pArg,
                        phaseAfter |-> res.phaseAfter,
                        err |-> res.err, warns |-> res.warns, ret |-> res.ret]
            /\ UNCHANGED <<LOFreq, freqList, dacVars>>
            /\ UNCHANGED hwVars

(***************************************************************************)
(* formatWaveForMem                                                        *)
(***************************************************************************)
\* x << n, x >> n and x & (2**n - 1) on Python integers of any size: shifting
\* right floors, and the mask reads the two's complement bits of a negative x
ShiftLeft(x, n) == x * Pow2(n)
ShiftRight(x, n) == x \div Pow2(n)
MaskLow(x, n) == x % Pow2(n)

\* (x >> n) & 255
BitsOf8(x, n) == MaskLow(ShiftRight(x, n), 8)

\* the length of a + b for two 1-d arrays, 0 - 1 if they do not broadcast
BroadcastLen(a, b) ==
    IF Len(a) = Len(b) THEN Len(a)
    ELSE IF Len(a) = 1 THEN Len(b)
    ELSE IF Len(b) = 1 THEN Len(a)
    ELSE 0 - 1
\* element t of a 1-d array stretched to a longer one
BAt(a, t) == IF Len(a) = 1 THEN a[1] ELSE a[t]

\* nBitsPerSamplePair * np.arange(nSamplesPerCycle), reversed if earlierSampleIsMsb
\* (column c is 1-based here)
ColBitShifts(nBitsPerPair, nSamplesPerCycle, earlierSampleIsMsb) ==
    [c \in 1..nSamplesPerCycle |->
        IF earlierSampleIsMsb THEN nBitsPerPair * (nSamplesPerCycle - c)
        ELSE nBitsPerPair * (c - 1)]

\* the shifts of the mems without the reversal: mem 0 least significant
MemMaskShiftsAscending(nMems, nBitsPerMemRow) ==
    [j \in 1..nMems |-> nBitsPerMemRow * (j - 1)]

\* nBitsPerMemRow * np.arange(nMems)[::-1]
MemMaskShifts(nMems, nBitsPerMemRow) ==
    [j \in 1..nMems |-> nBitsPerMemRow * (nMems - j)]

\* formatWaveForMem(iVals, qVals, nBitsPerSamplePair (here nBitsPerPair),
\*                  nSamplesPerCycle, nMems,
\*                  nBitsPerMemRow, earlierSampleIsMsb): ret[r][j] is row r of mem j
FormatWaveForMem(iVals, qVals, nBitsPerPair, nSamplesPerCycle, nMems, nBitsPerMemRow, earlierSampleIsMsb) ==
    LET nBitsPerSampleComponent == nBitsPerPair \div 2
        n      == BroadcastLen(iVals, qVals)
        iqVals == [t \in 1..n |->
                      ShiftLeft(BAt(iVals, t), nBitsPerSampleComponent) + BAt(qVals, t)]
        nRows  == n \div nSamplesPerCycle
        colBitShifts == ColBitShifts(nBitsPerPair, nSamplesPerCycle,
                                     earlierSampleIsMsb)
        iqRowVals == [r \in 1..nRows |->
                         SumSeq([c \in 1..nSamplesPerCycle |->
                             ShiftLeft(iqVals[(r - 1) * nSamplesPerCycle + c],
                                       colBitShifts[c])])]
        memMaskShifts == MemMaskShifts(nMems, nBitsPerMemRow)
        memRowVals == [r \in 1..nRows |->
                          [j \in 1..nMems |->
                              MaskLow(ShiftRight(iqRowVals[r], memMaskShifts[j]),
                                      nBitsPerMemRow)]]
    IN  IF n < 0 \/ n % nSamplesPerCycle # 0
        THEN [err |-> "ValueError", ret |-> None]
        ELSE [err |-> "none", ret |-> memRowVals]

\* a call is <<iVals, qVals, nBitsPerSamplePair, nSamplesPerCycle, nMems,
\*             nBitsPerMemRow, earlierSampleIsMsb>>
\* formatWaveForMem if it polled the ready flag of the V7 before packing
formatWaveForMemPolling(calls) ==
    \E c \in calls :
        \E res \in {FormatWaveForMem(c[1], c[2], c[3], c[4], c[5], c[6], c[7])} :
            /\ last' = [op |-> "formatWaveForMem", iVals |-> c[1], qVals |-> c[2],
                        nBitsPerSamplePair |-> c[3], nSamplesPerCycle |-> c[4],
                        nMems |-> c[5], nBitsPerMemRow |-> c[6],
                        earlierSampleIsMsb |-> c[7],
                        err |-> res.err, warns |-> {}, ret |-> res.ret]
            /\ fpgaLog' = Append(fpgaLog, [kind |-> "read", reg |-> "v7Ready", idx |-> 0,
                                           val |-> 1, data |-> <<>>])
            /\ v7_ready' = 1
            /\ UNCHANGED <<LOFreq, freqList, freqChannels, fftBinIndChannels,
                           dacVars, ddsVars, lut_dump_buffer_size, fpga>>

formatWaveForMem(calls) ==
    \E c \in calls :
        \E res \in {FormatWaveForMem(c[1], c[2], c[3], c[4], c[5], c[6], c[7])} :
            /\ last' = [op |-> "formatWaveForMem", iVals |-> c[1], qVals |-> c[2],
                        nBitsPerSamplePair |-> c[3], nSamplesPerCycle |-> c[4],
                        nMems |-> c[5], nBitsPerMemRow |-> c[6],
                        earlierSampleIsMsb |-> c[7],
                        err |-> res.err, warns |-> {}, ret |-> res.ret]
            /\ UNCHANGED <<LOFreq, freqList, freqChannels, fftBinIndChannels,
                           dacVars, ddsVars>>
            /\ UNCHANGED hwVars

(***************************************************************************)
(* The FPGA behind self.fpga.  Every read_int, write_int and blindwrite is  *)
(* one entry of fpgaLog; fpga holds what the registers and memories hold    *)
(* after the writes.  The registers the hardware drives (v7Ready,           *)
(* lutDumpBusy) are read, never stored: what a read returns is the          *)
(* hardware's choice.                                                       *)
(***************************************************************************)
IntRegs == {"enBRAMDump", "txEnUART", "resetUART", "inByteUART", "lutDumpDataPeriod",
            "lutBufferSize", "chanSelLoad"}

ReadInt(reg, v) == [kind |-> "read", reg |-> reg, idx |-> 0, val |-> v, data |-> <<>>]
WriteInt(reg, v) == [kind |-> "write", reg |-> reg, idx |-> 0, val |-> v, data |-> <<>>]
\* write_int(self.params['chanSel_regs'][i], v)
WriteChanSel(i, v) == [kind |-> "write", reg |-> "chanSel", idx |-> i, val |-> v, data |-> <<>>]
\* blindwrite(name, str, 0): data are the bytes (lutBram) or words (qdr) written
BlindWrite(reg, i, d) == [kind |-> "blindwrite", reg |-> reg, idx |-> i, val |-> 0, data |-> d]

\* the registers of a board just connected to
FpgaAtConnect ==
    [ints    |-> [r \in IntRegs |-> 0],
     chanSel |-> [i \in 1..nStreams |-> 0],
     lutBram |-> <<>>,
     qdr     |-> [i \in 1..nDdsMems |-> <<>>]]

\* the last write of the log to one of the places <<reg, idx>>, or what was
\* there before
LastWritten(log, places, before) ==
    LET hits == {n \in 1..Len(log) : log[n].kind # "read" /\ <<log[n].reg, log[n].idx>> \in places}
    IN  IF hits = {} THEN [val |-> before, data |-> before]
        ELSE log[CHOOSE n \in hits : \A m \in hits : m <= n]

\* the registers after the accesses of a log
AfterAccesses(f, log) ==
    [ints    |-> [r \in IntRegs |-> LastWritten(log, {<<r, 0>>}, f.ints[r]).val],
     chanSel |-> [i \in 1..nStreams |->
                     LastWritten(log, {<<"chanSel", i - 1>>}, f.chanSel[i]).val],
     lutBram |-> LastWritten(log, {<<"lutBram", 0>>}, f.lutBram).data,
     qdr     |-> [i \in 1..nDdsMems |->
                     LastWritten(log, {<<"qdr", i - 1>>}, f.qdr[i]).data]]

\* the concatenation of a sequence of sequences
RECURSIVE Concat(_)
Concat(ss) == IF ss = <<>> THEN <<>> ELSE Head(ss) \o Concat(Tail(ss))

(***************************************************************************)
(* connect                                                                 *)
(***************************************************************************)
connect ==
    /\ fpga' = FpgaAtConnect
    /\ fpgaLog' = <<>>
    /\ last' = [op |-> "connect", err |-> "none", warns |-> {}]
    /\ UNCHANGED <<LOFreq, freqList, freqChannels, fftBinIndChannels, dacVars, ddsVars,
                   v7_ready, lut_dump_buffer_size>>

(***************************************************************************)
(* loadChanSelection, loadSingleChanSelection                              *)
(***************************************************************************)
\* loadSingleChanSelection(selBinNums, chanNum): the accesses it makes
SingleChanSelection(selBinNums, chanNum) ==
    <<WriteInt("chanSelLoad", 0)>>
        \o [i \in 1..nStreams |-> WriteChanSel(i - 1, selBinNums[i])]
        \o <<WriteInt("chanSelLoad", chanNum * 2 + 1), WriteInt("chanSelLoad", 0)>>

\* if row > self.params['nChannelsPerStream']
RowBeyondStream(row) == row > nChannelsPerStream

\* row r (0-based) of a grid
GridRowAt(g, r) == [j \in 1..Cols(g) |-> Cell(g, r, j - 1)]

RECURSIVE ChanSelectionFrom(_, _)
\* the loop of loadChanSelection from row on: the accesses made and how it ends
ChanSelectionFrom(bins, row) ==
    IF row >= Rows(bins) THEN [log |-> <<>>, err |-> "none", warns |-> {}]
    ELSE IF RowBeyondStream(row)
    THEN [log |-> <<>>, err |-> "none", warns |-> {"TooManyFreqs"}]
    ELSE IF Cols(bins) # nStreams
    THEN [log |-> <<>>, err |-> "TypeError", warns |-> {}]
    ELSE LET rest == ChanSelectionFrom(bins, row + 1)
         IN  [rest EXCEPT !.log = SingleChanSelection(GridRowAt(bins, row), row) \o @]

\* loadChanSelection(fftBinIndChannels)
ChanSelection(binArg) ==
    LET bins == IF binArg = None THEN fftBinIndChannels ELSE binArg
    IN  IF bins = None THEN [log |-> <<>>, err |-> "AttributeError", warns |-> {}]
        ELSE IF fpga = None /\ Rows(bins) > 0 /\ Cols(bins) = nStreams
        THEN [log |-> <<>>, err |-> "AttributeError", warns |-> {}]
        ELSE ChanSelectionFrom(bins, 0)

loadChanSelection(grids) ==
    \E binArg \in grids \cup {None} :
        \E res \in {ChanSelection(binArg)} :
            /\ fpgaLog' = res.log
            /\ fpga' = IF fpga = None THEN fpga ELSE AfterAccesses(fpga, res.log)
            /\ last' = [op |-> "loadChanSelection", fftBinIndChannels |-> binArg,
                        err |-> res.err, warns |-> res.warns]
            /\ UNCHANGED <<LOFreq, freqList, freqChannels, fftBinIndChannels, dacVars,
                           ddsVars, v7_ready, lut_dump_buffer_size>>

(***************************************************************************)
(* The UART to the V7                                                      *)
(***************************************************************************)
\* while(not(self.v7_ready)): self.v7_ready = read_int(v7Ready), when the
\* hardware answers 0 zeros times and then 1; no read if the flag is set already
WaitReady(flag, zeros) ==
    IF flag # 0 THEN <<>>
    ELSE [n \in 1..zeros |-> ReadInt("v7Ready", 0)] \o <<ReadInt("v7Ready", 1)>>

\* sendUARTCommand(inByte), and the same three writes written out in the callers
SendUART(inByte) ==
    <<WriteInt("inByteUART", inByte), WriteInt("txEnUART", 1), WriteInt("txEnUART", 0)>>

\* what the hardware answers to the w-th wait of an operation: the number of
\* zeros read first, from the pair polls
Zeros(polls, w) == (polls[1] + polls[2] * w) % (MaxPolls + 1)

\* wait with the flag cleared, then send, for each byte after the first
RECURSIVE SendBytes(_, _, _, _)
SendBytes(bytes, flag, polls, w) ==
    IF bytes = <<>> THEN <<>>
    ELSE WaitReady(flag, Zeros(polls, w)) \o SendUART(Head(bytes))
             \o SendBytes(Tail(bytes), 0, polls, w + 1)

(***************************************************************************)
(* initializeV7UART                                                        *)
(***************************************************************************)
\* (10 * fpgaClockRate) // baud_rate + 1
LutDumpDataPeriod(baud_rate) == ((10 * fpgaClockRate) \div baud_rate) + 1

InitializeV7UARTLog(baud_rate) ==
    <<WriteInt("enBRAMDump", 0), WriteInt("txEnUART", 0),
      WriteInt("lutDumpDataPeriod", LutDumpDataPeriod(baud_rate)),
      WriteInt("resetUART", 1), WriteInt("resetUART", 0)>> \o SendUART(1)

\* initializeV7UART(baud_rate, lut_dump_buffer_size): sizes are the sizes a
\* caller may give, each as [val |-> size], or None for the parameter file's
initializeV7UART(sizes) ==
    \E size \in sizes :
        LET log == IF fpga = None THEN <<>> ELSE InitializeV7UARTLog(paramBaudRate)
        IN  /\ lut_dump_buffer_size' = IF size = None THEN paramLutDumpBufferSize ELSE size.val
            /\ v7_ready' = 0
            /\ fpgaLog' = log
            /\ fpga' = IF fpga = None THEN fpga ELSE AfterAccesses(fpga, log)
            /\ last' = [op |-> "initializeV7UART", lut_dump_buffer_size |-> size,
                        err |-> IF fpga = None THEN "AttributeError" ELSE "none",
                        warns |-> {}]
            /\ UNCHANGED <<LOFreq, freqList, freqChannels, fftBinIndChannels, dacVars,
                           ddsVars>>

(***************************************************************************)
(* loadLOFreq                                                              *)
(***************************************************************************)
\* the bytes sent: the command, then int(LOFreq) and the fraction * 2**16, each
\* low byte first; the LO is a whole number here, so the fraction is 0
LOFreqBytes(lo) ==
    <<mbRecvLO, BitsOf8(lo, 0), BitsOf8(lo, 8), 0, 0>>

\* los are the arguments a caller may give: [val |-> LOFreq] or None
loadLOFreq(los, pollings) ==
    \E loArg \in los, polls \in pollings :
        LET missing == loArg = None /\ LOFreq = None
            lo      == IF loArg = None THEN LOFreq.val ELSE loArg.val
            err     == IF missing \/ fpga = None THEN "AttributeError" ELSE "none"
            log     == IF err = "none"
                       THEN SendBytes(LOFreqBytes(lo), v7_ready, polls, 1) ELSE <<>>
        IN  /\ LOFreq' = IF missing THEN LOFreq ELSE [val |-> lo]
            /\ v7_ready' = IF err = "none" THEN 0 ELSE v7_ready
            /\ fpgaLog' = log
            /\ fpga' = IF fpga = None THEN fpga ELSE AfterAccesses(fpga, log)
            /\ last' = [op |-> "loadLOFreq", LOFreq |-> loArg, err |-> err, warns |-> {}]
            /\ UNCHANGED <<freqList, freqChannels, fftBinIndChannels, dacVars, ddsVars,
                           lut_dump_buffer_size>>

(***************************************************************************)
(* changeAtten                                                             *)
(***************************************************************************)
\* attenuations are counted in eighths of a dB here: 31.75 dB is 254, and
\* int(np.round(attenVal * 4)) is the rounding of eighths / 2
AttenRegister(atten8) == RoundDiv(atten8, 2)

changeAtten(ids, attens, pollings) ==
    \E attenID \in ids, atten8 \in attens, polls \in pollings :
        LET err == IF atten8 > 254 \/ atten8 < 0 THEN "ValueError"
                   ELSE IF fpga = None THEN "AttributeError" ELSE "none"
            log == IF err = "none"
                   THEN SendBytes(<<mbChangeAtten, attenID, AttenRegister(atten8)>>,
                                  v7_ready, polls, 1)
                   ELSE <<>>
        IN  /\ v7_ready' = IF err = "none" THEN 0 ELSE v7_ready
            /\ fpgaLog' = log
            /\ fpga' = IF fpga = None THEN fpga ELSE AfterAccesses(fpga, log)
            /\ last' = [op |-> "changeAtten", attenID |-> attenID, attenVal |-> atten8,
                        err |-> err, warns |-> {}]
            /\ UNCHANGED <<LOFreq, freqList, freqChannels, fftBinIndChannels, dacVars,
                           ddsVars, lut_dump_buffer_size>>

(***************************************************************************)
(* loadDacLUT                                                              *)
(***************************************************************************)
\* memVals[0::2] = Q, memVals[1::2] = I
InterleaveQI(comb) ==
    [k \in 1..(2 * Len(comb.I)) |->
        IF k % 2 = 1 THEN comb.Q[(k + 1) \div 2] ELSE comb.I[k \div 2]]

\* struct.pack('<h', v) after astype(np.int16): two bytes, the low one first
Int16Bytes(v) == <<BitsOf8(v, 0), BitsOf8(v, 8)>>

\* int(math.ceil(len(memVals)*2/self.lut_dump_buffer_size)): the division is the
\* integer division of Python 2, so the ceiling has nothing left to round
NumLutDumps(nVals, bufferSize) == (nVals * 2) \div bufferSize

\* memVals[a:b] for 0 <= a: Python clips the slice to the array
Slice(s, a, b) ==
    LET hi == IF b > Len(s) THEN Len(s) ELSE b
    IN  IF a >= hi THEN <<>> ELSE [k \in 1..(hi - a) |-> s[a + k]]

\* iqList of dump i (0-based)
DumpValues(memVals, bufferSize, i) ==
    IF Len(memVals) > (bufferSize \div 2) * (i + 1)
    THEN Slice(memVals, (bufferSize \div 2) * i, (bufferSize \div 2) * (i + 1))
    ELSE Slice(memVals, (bufferSize \div 2) * i, Len(memVals))

\* while(sending_data): sending_data = read_int(lutDumpBusy), the hardware
\* answering busy times 1 and then 0
WaitNotBusy(busy) ==
    [n \in 1..busy |-> ReadInt("lutDumpBusy", 1)] \o <<ReadInt("lutDumpBusy", 0)>>

\* one pass of the dump loop
LutDump(memVals, bufferSize, i, polls, busy) ==
    LET toWriteStr == Concat([k \in 1..Len(DumpValues(memVals, bufferSize, i)) |->
                                 Int16Bytes(DumpValues(memVals, bufferSize, i)[k])])
    IN  WaitNotBusy(busy)
            \o <<BlindWrite("lutBram", 0, toWriteStr),
                 WriteInt("lutBufferSize", Len(toWriteStr))>>
            \o WaitReady(0, Zeros(polls, i + 2))
            \o <<WriteInt("txEnUART", 1), WriteInt("txEnUART", 0)>>

\* the accesses of loadDacLUT for a comb; peek is what the read of line 464 gets
DacLUTLog(comb, bufferSize, flag, polls, busy, peek) ==
    LET memVals == InterleaveQI(comb)
    IN  WaitReady(flag, Zeros(polls, 1)) \o SendUART(mbRecvDACLUT)
            \o <<WriteInt("enBRAMDump", 1), ReadInt("v7Ready", peek)>>
            \o Concat([d \in 1..NumLutDumps(Len(memVals), bufferSize) |->
                          LutDump(memVals, bufferSize, d - 1, polls, busy)])
            \o <<WriteInt("enBRAMDump", 0)>>

\* loadDacLUT(combDict): combs are the dictionaries a caller may give, None for
\* the comb of the last generateDacComb; answers are <<polls, busy, peek>>
loadDacLUT(combs, answers) ==
    \E combArg \in combs \cup {None}, a \in answers :
        LET missing == combArg = None /\ dacFreqComb = None
            comb    == IF combArg = None THEN dacFreqComb ELSE combArg
            err     == IF missing \/ fpga = None THEN "AttributeError" ELSE "none"
        IN  \E log \in {IF err = "none"
                        THEN DacLUTLog(comb, lut_dump_buffer_size, v7_ready,
                                       a[1], a[2], a[3])
                        ELSE <<>>} :
            /\ v7_ready' = IF err = "none" THEN 0 ELSE v7_ready
            /\ fpgaLog' = log
            /\ fpga' = IF fpga = None THEN fpga ELSE AfterAccesses(fpga, log)
            /\ last' = [op |-> "loadDacLUT", combDict |-> combArg, err |-> err,
                        warns |-> {}]
            /\ UNCHANGED <<LOFreq, freqList, freqChannels, fftBinIndChannels, dacVars,
                           ddsVars, lut_dump_buffer_size>>

(***************************************************************************)
(* loadDdsLUT, writeQdr                                                    *)
(***************************************************************************)
\* the width in bits of one qdr word.  writeQdr packs 64-bit words and swaps
\* their 32-bit halves; the word is nBytesPerQdrSample bytes here, as wide as
\* the mem row loadDdsLUT asks formatWaveForMem for, and its halves are swapped
QdrWordBits == nBytesPerQdrSample * 8

\* (memValues >> 32) + ((memValues & mask32) << 32), for the word width above
QdrFlip(v) ==
    ShiftRight(v, QdrWordBits \div 2)
        + ShiftLeft(MaskLow(v, QdrWordBits \div 2), QdrWordBits \div 2)

\* np.roll(memValues, -1)
RollBack(s) == [k \in 1..Len(s) |-> s[(k % Len(s)) + 1]]

\* the words writeQdr(memName, valuesToWrite, bQdrFlip=True) writes: the cast to
\* unsigned words, the flip and the roll
QdrWords(valuesToWrite) ==
    RollBack([k \in 1..Len(valuesToWrite) |->
                 QdrFlip(MaskLow(valuesToWrite[k], QdrWordBits))])

\* memVals[:, 0]
FirstColumn(memVals) == [r \in 1..Len(memVals) |-> memVals[r][1]]
\* the column of memVals that loadDdsLUT hands to writeQdr
ColumnWritten(memVals) == FirstColumn(memVals)

\* memVals of stream iMem (1-based)
DdsMemVals(dict, iMem) ==
    FormatWaveForMem(dict.iStreamList[iMem], dict.qStreamList[iMem],
                     nBitsPerDdsSamplePair, nDdsSamplesPerCycle, nDdsMems,
                     nBytesPerQdrSample * 8, TRUE)

\* loadDdsLUT(ddsToneDict): the loop over the mems, stopped by the first error
DdsLUT(dictArg) ==
    LET missing == dictArg = None /\ (ddsIStreamsList = None \/ ddsQStreamsList = None)
        dict == IF dictArg = None
                THEN [iStreamList |-> ddsIStreamsList, qStreamList |-> ddsQStreamsList]
                ELSE dictArg
        mems == [iMem \in 1..nDdsMems |-> DdsMemVals(dict, iMem)]
        \* the mems before the first one that formatWaveForMem fails on
        good == {n \in 0..nDdsMems : \A iMem \in 1..n : mems[iMem].err = "none"}
        done == CHOOSE n \in good : \A m \in good : m <= n
    IN  IF missing THEN [err |-> "AttributeError", log |-> <<>>, ret |-> None]
        ELSE IF fpga = None
        THEN [err |-> IF mems[1].err = "none" THEN "AttributeError" ELSE mems[1].err,
              log |-> <<>>, ret |-> None]
        ELSE [err |-> IF done = nDdsMems THEN "none" ELSE mems[done + 1].err,
              log |-> [iMem \in 1..done |->
                          BlindWrite("qdr", iMem - 1,
                                     QdrWords(ColumnWritten(mems[iMem].ret)))],
              ret |-> IF done = nDdsMems
                      THEN [iMem \in 1..nDdsMems |-> mems[iMem].ret] ELSE None]

loadDdsLUT(dicts) ==
    \E dictArg \in dicts \cup {None} :
        \E res \in {DdsLUT(dictArg)} :
            /\ fpgaLog' = res.log
            /\ fpga' = IF fpga = None THEN fpga ELSE AfterAccesses(fpga, res.log)
            /\ last' = [op |-> "loadDdsLUT", ddsToneDict |-> dictArg, err |-> res.err,
                        warns |-> {}, ret |-> res.ret]
            /\ UNCHANGED <<LOFreq, freqList, freqChannels, fftBinIndChannels, dacVars,
                           ddsVars, v7_ready, lut_dump_buffer_size>>

(***************************************************************************)
(* What the callers supply                                                 *)
(***************************************************************************)
\* one grid row holding f and g, padded to nStreams cells
GridRow(f, g) ==
    [j \in 1..nStreams |-> IF j = 1 THEN f ELSE IF j = 2 THEN g ELSE freqPadValue]
\* a grid of r equal rows
GridOf(r, row) == Arr2(r, nStreams, [k \in 1..(r * nStreams) |-> row[((k - 1) % nStreams) + 1]])

\* grids written by hand: a frequency beside itself or one of its aliases
AliasGrids ==
    {GridOf(1, GridRow(f, f + k * dacSampleRate)) :
        f \in (-dacSampleRate)..MaxFreq, k \in {-1, 0, 1}}

\* the session's inputs: a short list, one too long, and a 2-d one
ShortList == Arr1(FreqSeq(16, 2))
LongList == Arr1(FreqSeq(16, nChannels + MaxExtra))
List2D == Arr2(2, nStreams + MaxExtra, FreqSeq(16, 2 * (nStreams + MaxExtra)))
SessionLists == {ShortList, LongList, List2D}
SessionOrders == {"F", "C"}
SessionLOs == {16, 20}
SessionGrids == {GridOf(1, GridRow(20, 4))}
SessionDacCalls ==
    {<<l, Arr1(AttenSeq(20, 20, PyLen(l))), g, Arr1(PhaseSeq(0, 1, PyLen(l)))>> :
        l \in {ShortList, LongList}, g \in {20, 40}}
    \cup {<<l, None, 20, None>> : l \in SessionLists \cup {None}}
    \cup {<<None, Arr1(AttenSeq(0, 20, 2)), 0, None>>,
          <<ShortList, Arr1(AttenSeq(20, 20, nChannels + MaxExtra)), 20, None>>,
          <<ShortList, Arr1(AttenSeq(20, 20, 2)), 20, Arr1(PhaseSeq(0, 0, 1))>>}
SessionDrawn == {<<0, 0>>, <<1, 1>>}
OversizeGrid == GridOf(nChannelsPerStream + MaxExtra, GridRow(16, 19))
SessionDdsCalls ==
    {<<None, None, None>>,
     <<GridOf(1, GridRow(20, 4)), None, None>>,
     <<GridOf(1, GridRow(20, 4)), GridOf(1, GridRow(0, 0)), GridOf(1, GridRow(1, 2))>>,
     <<OversizeGrid, None, None>>,
     <<None, OversizeGrid, None>>}

\* generateDdsTones called on grids of two channels per stream: stream 0 holds a
\* and b, stream 1 holds c and a pad, stream 2 two pads
DdsCellValues == {freqPadValue, 4, 16, 20, 30}
DdsGrids ==
    {Arr2(2, nStreams, <<a, c, freqPadValue, b, freqPadValue, freqPadValue>>) :
        a \in DdsCellValues, b \in DdsCellValues, c \in {freqPadValue, 18}}
\* a phase in every cell, in quarter turns
DdsPhases == {Arr2(2, nStreams, [k \in 1..(2 * nStreams) |-> (p + k) % 4]) : p \in 0..3}
\* the bins are those generateFftChanSelection gives the grid for some LO
DdsCalls ==
    {<<fc, FftChanSelection(fc, lo), ph>> :
        fc \in DdsGrids, lo \in LOValues, ph \in DdsPhases \cup {None}}

\* formatWaveForMem called directly: signed components of MaxPackBits bits, one
\* or two rows of two samples, and lengths that do not fill a row
MaxPackBits == 4
PackValues == {0 - Pow2(MaxPackBits - 1), 0 - 1, 0, 1, 2, Pow2(MaxPackBits - 1) - 1}
PackSamples ==
    {<<a, b>> : a \in PackValues, b \in PackValues}
        \cup {<<1, 2, a>> : a \in {0, 0 - 1}}
        \cup {<<a, 1, 0 - 1, a>> : a \in {0, 0 - 1}}
        \cup {<<a>> : a \in {0, 1}}
\* <<nBitsPerSamplePair, nSamplesPerCycle, nMems, nBitsPerMemRow>>: the row of
\* samples is as wide as the mems together in the first two, not in the others
PackLayouts ==
    {<<2 * MaxPackBits, 2, 2, 2 * MaxPackBits>>, <<2 * MaxPackBits, 2, 1, 4 * MaxPackBits>>,
     <<2 * MaxPackBits, 2, 1, 2 * MaxPackBits>>, <<2 * MaxPackBits, 2, 3, 2 * MaxPackBits>>}
PackCalls ==
    {<<i, q, l[1], l[2], l[3], l[4], msb>> :
        i \in PackSamples, q \in PackSamples, l \in PackLayouts, msb \in BOOLEAN}

\* loadChanSelection called on bin grids of up to MaxExtraRows rows more than
\* nChannelsPerStream, of nStreams columns or one less
MaxExtraRows == 2
BinGrids ==
    {Arr2(r, c, [k \in 1..(r * c) |-> (a + b * k) % (nFftBins + 1)]) :
        r \in 1..(nChannelsPerStream + MaxExtraRows), c \in {nStreams, nStreams - 1},
        a \in 0..nFftBins, b \in 0..nFftBins}

\* what the hardware answers: the zeros read by the waits, as a pair (see Zeros)
Pollings == {<<a, b>> : a \in 0..MaxPolls, b \in 0..MaxPolls}
DumpAnswers == {<<polls, busy, peek>> : polls \in Pollings, busy \in 0..MaxPolls, peek \in {0, 1}}
\* buffer sizes in bytes, and combs of 1 to MaxCombLen samples with distinct values
MaxBufferSize == 18
BufferSizes == {[val |-> b] : b \in 1..MaxBufferSize} \cup {None}
MaxCombLen == 4
Combs ==
    {[I |-> [k \in 1..n |-> a * k], Q |-> [k \in 1..n |-> 0 - a * k - 1]] :
        n \in 1..MaxCombLen, a \in {1, 100}}
\* LOs of one and of two bytes, attenuations in eighths of a dB
LoadLOs == {[val |-> lo] : lo \in {0, 20, 300}} \cup {None}
AttenIDs == {1, 2, 3}
Attens8 == {0 - 1, 0, 3, 5, 254, 255}

\* generateTones called directly: lists of 0 to 2 frequencies, amplitude and phase
\* lists of 0 to 3 entries or omitted
ToneFreqs == {Arr1(<<>>)} \cup {Arr1(<<f>>) : f \in (-9)..MaxFreq}
                 \cup {Arr1(<<f, (3 * f) % MaxFreq>>) : f \in 0..MaxFreq}
ToneCalls ==
    {<<fl, n, r, a, p>> :
        fl \in ToneFreqs, n \in {1, 2, 4}, r \in {8, dacSampleRate},
        a \in {None} \cup {Arr1([k \in 1..la |-> k]) : la \in 0..3},
        p \in {None} \cup {Arr1(PhaseSeq(p0, 1, lp)) : p0 \in 0..3, lp \in 0..3}}

InitDefaultLO ==
    /\ LOFreq = [val |-> 0]
    /\ freqList = None
    /\ freqChannels = None
    /\ fftBinIndChannels = None
    /\ attenList = None
    /\ dacQuantizedFreqList = None
    /\ dacPhaseList = None
    /\ dacFreqComb = None
    /\ ddsQuantizedFreqList = None
    /\ ddsPhaseList = None
    /\ ddsIStreamsList = None
    /\ ddsQStreamsList = None
    /\ v7_ready = 0
    /\ lut_dump_buffer_size = paramLutDumpBufferSize
    /\ fpga = None
    /\ fpgaLog = <<>>
    /\ last = [op |-> "init", err |-> "none", warns |-> {}]
    /\ nCalls = 0
Init ==
    /\ LOFreq = None
    /\ freqList = None
    /\ freqChannels = None
    /\ fftBinIndChannels = None
    /\ attenList = None
    /\ dacQuantizedFreqList = None
    /\ dacPhaseList = None
    /\ dacFreqComb = None
    /\ ddsQuantizedFreqList = None
    /\ ddsPhaseList = None
    /\ ddsIStreamsList = None
    /\ ddsQStreamsList = None
    /\ v7_ready = 0
    /\ lut_dump_buffer_size = paramLutDumpBufferSize
    /\ fpga = None
    /\ fpgaLog = <<>>
    /\ last = [op |-> "init", err |-> "none", warns |-> {}]
    /\ nCalls = 0

\* every list with every attenuation pair, global attenuation and phase ramp
CombCalls ==
    {<<l, Arr1(AttenSeq(a, b, PyLen(l))), g,
       IF given THEN Arr1(PhaseSeq(p, st, PyLen(l))) ELSE None>> :
        l \in Lists1D \ {Arr1(<<>>)}, a \in AttenValues, b \in AttenValues,
        g \in AttenValues, given \in BOOLEAN, p \in 0..3, st \in 0..3}
CombDrawn == {<<p, st>> : p \in 0..3, st \in 0..3}

\* a planning session of at most MaxCalls calls
Budget == nCalls < MaxCalls /\ nCalls' = nCalls + 1

Next ==
    \/ Budget /\ setLOFreq(SessionLOs)
    \/ Budget /\ generateResonatorChannels(SessionLists, SessionOrders)
    \/ Budget /\ generateFftChanSelection(SessionGrids)
    \/ Budget /\ generateDacComb(SessionDacCalls, SessionDrawn)
    \/ Budget /\ generateDdsTones(SessionDdsCalls)

Spec == Init /\ [][Next]_vars

\* the channel allocator alone, over every list
NextAlloc ==
    generateResonatorChannels(Lists1D \cup Lists2D, Orders) /\ UNCHANGED nCalls

SpecAlloc == Init /\ [][NextAlloc]_vars

\* the bin mapper alone, over every hand-written grid
NextBins ==
    \/ setLOFreq(LOValues) /\ UNCHANGED nCalls
    \/ generateFftChanSelection(AliasGrids) /\ UNCHANGED nCalls

SpecBins == Init /\ [][NextBins]_vars

\* the comb builder alone: one comb on a new session, with or without an LO
NextComb ==
    \/ LOFreq = None /\ nCalls = 0 /\ setLOFreq(SessionLOs) /\ UNCHANGED nCalls
    \/ nCalls = 0 /\ nCalls' = 1 /\ generateDacComb(CombCalls, CombDrawn)

SpecComb == Init /\ [][NextComb]_vars

\* one direct call of generateTones
NextTones == nCalls = 0 /\ nCalls' = 1 /\ generateTones(ToneCalls, CombDrawn)

SpecTones == Init /\ [][NextTones]_vars

\* one setLOFreq, then one generateDdsTones
NextDds ==
    \/ LOFreq = None /\ nCalls = 0 /\ setLOFreq(LOValues) /\ UNCHANGED nCalls
    \/ nCalls = 0 /\ nCalls' = 1 /\ generateDdsTones(DdsCalls)

SpecDds == Init /\ [][NextDds]_vars

\* formatWaveForMem alone
NextPack == nCalls = 0 /\ nCalls' = 1 /\ formatWaveForMem(PackCalls)

SpecPack == Init /\ [][NextPack]_vars

\* loadChanSelection on a new object, connected or not
NextChanSel ==
    \/ fpga = None /\ nCalls = 0 /\ connect /\ UNCHANGED nCalls
    \/ nCalls = 0 /\ nCalls' = 1 /\ loadChanSelection(BinGrids)

SpecChanSel == Init /\ [][NextChanSel]_vars

\* the operations that send to the V7: connect, initializeV7UART, then one of them
NextUart ==
    \/ fpga = None /\ nCalls = 0 /\ connect /\ UNCHANGED nCalls
    \/ nCalls = 0 /\ nCalls' = 1 /\ initializeV7UART(BufferSizes)
    \/ nCalls <= 1 /\ nCalls' = 2 /\ loadDacLUT(Combs, DumpAnswers)
    \/ nCalls <= 1 /\ nCalls' = 2 /\ loadLOFreq(LoadLOs, Pollings)
    \/ nCalls <= 1 /\ nCalls' = 2 /\ changeAtten(AttenIDs, Attens8, Pollings)

SpecUart == Init /\ [][NextUart]_vars

\* the dds streams made and loaded: connect and setLOFreq in any order, then
\* generateDdsTones, then loadDdsLUT
NextDdsLut ==
    \/ fpga = None /\ nCalls = 0 /\ connect /\ UNCHANGED nCalls
    \/ LOFreq = None /\ nCalls = 0 /\ setLOFreq(SessionLOs) /\ UNCHANGED nCalls
    \/ nCalls = 0 /\ nCalls' = 1 /\ generateDdsTones(DdsCalls)
    \/ nCalls <= 1 /\ nCalls' = 2 /\ loadDdsLUT({})

SpecDdsLut == Init /\ [][NextDdsLut]_vars

\* planning and hardware operations in any order, at most MaxCalls of them after
\* connect
PlanToneCalls == {<<Arr1(<<4>>), 4, dacSampleRate, None, None>>, <<Arr1(<<4, 12>>), 2, 8, None, None>>}
PlanPackCalls ==
    {<<i, q, l[1], l[2], l[3], l[4], TRUE>> :
        i \in {<<1, 2>>, <<1>>}, q \in {<<0 - 1, 0>>}, l \in PackLayouts}
NextPlanHw ==
    \/ fpga = None /\ connect /\ UNCHANGED nCalls
    \/ Budget /\ initializeV7UART({[val |-> paramLutDumpBufferSize]})
    \/ Budget /\ loadLOFreq({None, [val |-> 20]}, {<<0, 0>>, <<1, 0>>})
    \/ Budget /\ loadChanSelection({GridOf(1, GridRow(1, 0))})
    \/ Budget /\ setLOFreq(SessionLOs)
    \/ Budget /\ generateResonatorChannels(SessionLists, SessionOrders)
    \/ Budget /\ generateFftChanSelection(SessionGrids)
    \/ Budget /\ generateTones(PlanToneCalls, {<<0, 0>>})
    \/ Budget /\ generateDacComb(SessionDacCalls, SessionDrawn)
    \/ Budget /\ generateDdsTones(SessionDdsCalls)
    \/ Budget /\ formatWaveForMem(PlanPackCalls)

SpecPlanHw == Init /\ [][NextPlanHw]_vars

\* a session in which setLOFreq is never called
NextNoLO ==
    \/ Budget /\ generateResonatorChannels(SessionLists, SessionOrders)
    \/ Budget /\ generateFftChanSelection(SessionGrids)
    \/ Budget /\ generateDacComb(SessionDacCalls, SessionDrawn)
    \/ Budget /\ generateDdsTones(SessionDdsCalls)

SpecNoLO == Init /\ [][NextNoLO]_vars

(***************************************************************************)
(* Properties                                                              *)
(***************************************************************************)
StreamCount == nChannels \div nChannelsPerStream

\* the last call was generateResonatorChannels on a 1-d list of n frequencies
AllocatedList(n) ==
    /\ last.op = "generateResonatorChannels"
    /\ Len(last.freqList.shape) = 1
    /\ PyLen(last.freqList) = n

\* the cells of grid g read column by column
ColumnRead(g) ==
    [k \in 1..(Rows(g) * Cols(g)) |-> Cell(g, (k - 1) % Rows(g), (k - 1) \div Rows(g))]

\* the number of pad cells in column j of g
PadsInColumn(g, j) == Cardinality({i \in 0..(Rows(g) - 1) : Cell(g, i, j) = -1})

\* C1: for a list of n frequencies, 0 < n <= nChannels, in either order, the grid's
\* flattened length is a multiple of the stream count, exactly
\* (streamCount - n mod streamCount) mod streamCount cells hold the pad value -1,
\* and n cells hold something else.
C1_PaddedToStreamCount ==
    \A n \in 1..nChannels :
        AllocatedList(n) =>
            /\ Len(last.ret.flat) % StreamCount = 0
            /\ CountEq(last.ret.flat, -1) = (StreamCount - (n % StreamCount)) % StreamCount
            /\ Len(last.ret.flat) - CountEq(last.ret.flat, -1) = n

C1_Witness ==
    /\ AllocatedList(4)
    /\ last.order = "C"
    /\ CountEq(last.ret.flat, -1) = 2

\* C2 as claimed: the grid always has nChannelsPerStream rows and
\* nChannels/nChannelsPerStream columns, however many frequencies were supplied.
C2_FullHeightGrid ==
    \A n \in 0..nChannels :
        AllocatedList(n) =>
            last.ret.shape = <<nChannelsPerStream, StreamCount>>

\* C2 as amended: the grid has nChannels/nChannelsPerStream columns and
\* ceil(n / streamCount) rows, which is at most nChannelsPerStream and reaches it
\* only for n > nChannels - streamCount.
C2_GridShape ==
    \A n \in 0..nChannels :
        AllocatedList(n) =>
            /\ last.ret.shape = <<(n + StreamCount - 1) \div StreamCount, StreamCount>>
            /\ Rows(last.ret) <= nChannelsPerStream
            /\ (Rows(last.ret) = nChannelsPerStream <=> n > nChannels - StreamCount)

C2_Witness ==
    /\ AllocatedList(2)
    /\ last.ret.shape = <<1, StreamCount>>

\* C3: in 'F' order, for n <= nChannels not a multiple of the stream count, the pad
\* cells sit in padCount distinct columns, at most one per column and in that
\* column's last row, and the grid read column by column without its pads is the
\* input list.
C3_PadsSpreadOverStreams ==
    \A n \in 1..nChannels :
        (AllocatedList(n) /\ last.order = "F" /\ n % StreamCount # 0) =>
            LET g == last.ret
            IN  /\ \A j \in 0..(Cols(g) - 1) :
                      /\ PadsInColumn(g, j) <= 1
                      /\ \A i \in 0..(Rows(g) - 1) :
                            Cell(g, i, j) = -1 => i = Rows(g) - 1
                /\ Cardinality({j \in 0..(Cols(g) - 1) : PadsInColumn(g, j) = 1})
                      = StreamCount - (n % StreamCount)
                /\ SelectNe(ColumnRead(g), -1) = last.freqList.flat

C3_Witness ==
    /\ AllocatedList(4)
    /\ last.order = "F"
    /\ Rows(last.ret) = 2
    /\ Cell(last.ret, 1, 1) = -1
    /\ Cell(last.ret, 1, 2) = -1

\* the last call was generateDacComb on more than nChannels frequencies, with as
\* many attenuations (none below the global one) and, if given, as many phases,
\* and a local oscillator frequency is set
OversizeCombCall ==
    /\ last.op = "generateDacComb"
    /\ last.freqList # None
    /\ Len(last.freqList.shape) = 1
    /\ PyLen(last.freqList) > nChannels
    /\ last.resAttenList # None
    /\ PyLen(last.resAttenList) = PyLen(last.freqList)
    /\ (last.phaseList # None => PyLen(last.phaseList) = PyLen(last.freqList))
    /\ \A k \in 1..PyLen(last.resAttenList) :
          last.resAttenList.flat[k] >= last.globalDacAtten
    /\ LOFreq # None

\* C4 as claimed: more than nChannels frequencies is never fatal:
\* generateResonatorChannels and generateDacComb both report the excess and go on
\* with exactly the first nChannels entries.
C4_ExcessIsTruncated ==
    /\ (last.op = "generateResonatorChannels" /\ Len(last.freqList.shape) = 1
            /\ PyLen(last.freqList) > nChannels) =>
          /\ last.err = "none"
          /\ "CapacityExceeded" \in last.warns
          /\ freqList = TakeFirst(last.freqList, nChannels)
    /\ OversizeCombCall =>
          /\ last.err # "LengthMismatch"
          /\ "CapacityExceeded" \in last.warns
          /\ freqList = TakeFirst(last.freqList, nChannels)
          /\ attenList = TakeFirst(last.resAttenList, nChannels)

\* C5 as claimed: at every moment self.freqList holds at most nChannels
\* frequencies and self.freqChannels at most nChannels cells that are not pads.
C5_CountWithinCapacity ==
    /\ freqList # None => Len(freqList.flat) <= nChannels
    /\ freqChannels # None => Len(SelectNe(freqChannels.flat, -1)) <= nChannels

\* the last call was a generateFftChanSelection that returned a grid
BinsReturned ==
    /\ last.op = "generateFftChanSelection"
    /\ last.err = "none"

\* C6 as claimed: for every LO and every f < dacSampleRate, a cell holding f and a
\* cell holding f - dacSampleRate get the same bin.
C6_NegativeAliasSameBin ==
    BinsReturned =>
        \A i \in 0..(Rows(last.used) - 1), j1, j2 \in 0..(Cols(last.used) - 1) :
            (/\ Cell(last.used, i, j1) < dacSampleRate
             /\ Cell(last.used, i, j2) = Cell(last.used, i, j1) - dacSampleRate) =>
                Cell(last.ret, i, j1) = Cell(last.ret, i, j2)

\* C6 as amended: for every LO and every f >= 0 with f < LO <= f + dacSampleRate,
\* a cell holding f and a cell holding f + dacSampleRate get the same bin (a cell
\* holding a negative number is a pad, whatever else the grid holds).
C6_AliasBelowLOSameBin ==
    BinsReturned =>
        \A i \in 0..(Rows(last.used) - 1), j1, j2 \in 0..(Cols(last.used) - 1) :
            (/\ Cell(last.used, i, j1) >= 0
             /\ Cell(last.used, i, j2) = Cell(last.used, i, j1) + dacSampleRate
             /\ Cell(last.used, i, j1) < LOFreq.val
             /\ LOFreq.val <= Cell(last.used, i, j2)) =>
                Cell(last.ret, i, j1) = Cell(last.ret, i, j2)

C6_Witness ==
    /\ BinsReturned
    /\ LOFreq = [val |-> 16]
    /\ Cell(last.used, 0, 0) = 8
    /\ Cell(last.used, 0, 1) = 8 + dacSampleRate
    /\ Cell(last.ret, 0, 0) = 1
    /\ Cell(last.ret, 0, 1) = 1

\* C7 as claimed: every cell of the bin grid is a non-negative integer.
C7_BinsNonNegative ==
    fftBinIndChannels # None =>
        \A k \in 1..Len(fftBinIndChannels.flat) : fftBinIndChannels.flat[k] >= 0

\* C8: in a session where no LO frequency was ever set, generateFftChanSelection,
\* generateDacComb and generateDdsTones each end in an error and return nothing.
C8_NoLONoResult ==
    last.op \in {"generateFftChanSelection", "generateDacComb", "generateDdsTones"} =>
        /\ last.err # "none"
        /\ last.ret = None

C8_Witness ==
    /\ LOFreq = None
    /\ last.op = "generateDdsTones"
    /\ last.err = "MissingLocalOscillator"
    /\ last.ret = None
    /\ freqChannels # None

\* the last call was generateDacComb with lists whose lengths agree
MatchedCombCall ==
    /\ last.op = "generateDacComb"
    /\ last.freqList # None
    /\ last.resAttenList # None
    /\ PyLen(last.resAttenList) = PyLen(last.freqList)
    /\ \/ last.phaseList = None
       \/ /\ PyLen(last.phaseList) = PyLen(last.freqList)
          /\ PyLen(last.freqList) <= nChannels

C9_WitnessEqual ==
    /\ MatchedCombCall
    /\ last.err = "none"
    /\ \A k \in 1..PyLen(last.resAttenList) :
          last.resAttenList.flat[k] = last.globalDacAtten

\* 2^(nBitsPerSamplePair/2 - 1) - 1
PeakLimit == 2 ^ (nBitsPerSamplePair \div 2 - 1) - 1

\* C10: every comb generateDacComb returns has max(|I|, |Q|) <= maxAmp and is the
\* rounded sum as computed, and whenever the rounded sum exceeds maxAmp the call
\* fails with the dynamic range error and returns nothing.
C10_CombWithinRange ==
    last.op = "generateDacComb" =>
        /\ last.ret # None =>
              /\ \A k \in 1..Len(last.ret.I) :
                    /\ Abs(last.ret.I[k]) <= PeakLimit
                    /\ Abs(last.ret.Q[k]) <= PeakLimit
              /\ last.ret.I = dacFreqComb.I
              /\ last.ret.Q = dacFreqComb.Q
        /\ (/\ dacFreqComb # None
            /\ \E k \in 1..Len(dacFreqComb.I) :
                  Abs(dacFreqComb.I[k]) > PeakLimit \/ Abs(dacFreqComb.Q[k]) > PeakLimit) =>
              /\ last.err = "DynamicRangeExceeded"
              /\ last.ret = None

C10_Witness ==
    /\ last.op = "generateDacComb"
    /\ last.err = "DynamicRangeExceeded"
    /\ last.ret = None
    /\ \E k \in 1..Len(dacFreqComb.I) : Abs(dacFreqComb.I[k]) > PeakLimit

\* the attributes generateDacComb assigns
CombAttributes == <<freqList, attenList, dacQuantizedFreqList, dacPhaseList, dacFreqComb>>

\* C11 as claimed: a generateDacComb that fails with a length mismatch, an
\* infeasible attenuation, a missing LO or an exceeded dynamic range leaves
\* freqList, attenList, dacQuantizedFreqList, dacPhaseList and dacFreqComb as they
\* were before the call.
C11_FailedCombLeavesNoTrace ==
    [][(/\ last'.op = "generateDacComb"
        /\ last'.err \in {"LengthMismatch", "AttenuationInfeasible",
                          "MissingLocalOscillator", "DynamicRangeExceeded"})
          => UNCHANGED CombAttributes]_vars

\* the last call was generateTones
TonesCalled == last.op = "generateTones"

\* the lengths generateTones compares, once the defaults are filled in
ToneLengthsAgree ==
    /\ (last.amplitudeList # None => PyLen(last.amplitudeList) = PyLen(last.freqList))
    /\ (last.phaseList # None => PyLen(last.phaseList) = PyLen(last.freqList))

\* C12: generateTones fails with the length error unless the frequency,
\* amplitude and phase lists (defaults filled in) have the same length; when they
\* do it returns one I row and one Q row per frequency, each of nSamples samples.
C12_TonesLengths ==
    TonesCalled =>
        /\ ~ToneLengthsAgree => (last.err = "LengthMismatch" /\ last.ret = None)
        /\ ToneLengthsAgree =>
              /\ last.err = "none"
              /\ Len(last.ret.I) = PyLen(last.freqList)
              /\ Len(last.ret.Q) = PyLen(last.freqList)
              /\ \A i \in 1..PyLen(last.freqList) :
                    /\ Len(last.ret.I[i]) = last.nSamples
                    /\ Len(last.ret.Q[i]) = last.nSamples

C12_Witness ==
    /\ TonesCalled
    /\ PyLen(last.freqList) = 2
    /\ last.amplitudeList = None
    /\ last.phaseList # None
    /\ last.nSamples = 2
    /\ last.err = "none"
    /\ Len(last.ret.I) = 2

\* the quantized frequencies generateTones returns when handed q in place of
\* the last call's frequencies
Requantized(q) ==
    ToneDict(Arr1(q), last.nSamples, last.sampleRate, last.amplitudeList,
             Arr1(last.ret.phaseList), <<>>).ret.quantizedFreqList

\* C13: quantizing the quantized frequencies generateTones returned gives the same
\* values again, and a frequency on the grid of sampleRate/nSamples comes back
\* unchanged.
C13_QuantizationIdempotent ==
    (TonesCalled /\ last.err = "none") =>
        /\ Requantized(last.ret.quantizedFreqList) = last.ret.quantizedFreqList
        /\ \A i \in 1..PyLen(last.freqList) :
              last.freqList.flat[i] % (last.sampleRate \div last.nSamples) = 0 =>
                  last.ret.quantizedFreqList[i] = last.freqList.flat[i]

C13_Witness ==
    /\ TonesCalled
    /\ last.err = "none"
    /\ last.sampleRate = 16
    /\ last.nSamples = 4
    /\ last.freqList.flat = <<18>>
    /\ last.ret.quantizedFreqList = <<16>>

\* the last call was generateDacComb on one frequency whose attenuation equals
\* the global one, with an LO set
SingleToneFullScale ==
    /\ last.op = "generateDacComb"
    /\ LOFreq # None
    /\ last.freqList # None
    /\ PyLen(last.freqList) = 1
    /\ last.resAttenList # None
    /\ last.resAttenList.flat = <<last.globalDacAtten>>
    /\ (last.phaseList # None => PyLen(last.phaseList) = 1)

\* C14 as claimed: a single tone whose attenuation equals the global attenuation
\* gives, at any frequency and phase, a comb with peak max(|I|, |Q|) = maxAmp and
\* neither the phase sum warning nor the underutilized range warning.
C14_SingleToneNoWarning ==
    SingleToneFullScale =>
        /\ last.err = "none"
        /\ Max(MaxAbs(last.ret.I), MaxAbs(last.ret.Q)) = PeakLimit
        /\ "PhaseSumWarning" \notin last.warns
        /\ "UnderutilizedRangeWarning" \notin last.warns

\* the last call was a generateDacComb that summed a comb within the DAC's range
CombWithinRange ==
    /\ last.op = "generateDacComb"
    /\ dacFreqComb # None
    /\ Max(MaxAbs(dacFreqComb.I), MaxAbs(dacFreqComb.Q)) <= PeakLimit

\* C15 as claimed: the phase sum and underutilized range advisories never stop
\* generateDacComb: whenever the peak does not exceed maxAmp the call completes
\* and returns the comb, whichever advisories it raised.
C15_AdvisoriesNeverStop ==
    CombWithinRange =>
        /\ last.err = "none"
        /\ last.ret # None
        /\ last.ret.I = dacFreqComb.I
        /\ last.ret.Q = dacFreqComb.Q

\* the last call was a generateDdsTones that returned its streams
DdsReturned ==
    /\ last.op = "generateDdsTones"
    /\ last.err = "none"

\* the phases the last call started from: those supplied, or zeros
LastPhasesUsed ==
    IF last.phaseList = None
    THEN Arr2(Rows(last.freqChannels), Cols(last.freqChannels),
              [k \in 1..Len(last.freqChannels.flat) |-> 0])
    ELSE last.phaseList

\* the tones generateTones makes for stream j (0-based) of the last call
LastStreamTones(j) ==
    StreamTones(last.freqChannels, last.ret.quantizedFreqList,
                LastPhasesUsed,
                LOFreq.val, j)

\* sample number n (0-based) of channel ch of a stream whose tones are rows:
\* channels past the last tone are zeros
ChannelSample(rows, ch, n) ==
    IF ch < Len(rows) THEN rows[ch + 1][n + 1] * maxValue ELSE 0

\* C16: each stream's I and Q sequences have nChannelsPerStream * nDdsSamples
\* entries, and position (c * nChannelsPerStream + ch) * nDdsSamplesPerCycle + k
\* holds sample c * nDdsSamplesPerCycle + k of channel ch.
C16_InterleavedLayout ==
    DdsReturned =>
        \A j \in 0..(nStreams - 1) :
            /\ Len(last.ret.iStreamList[j + 1]) = nChannelsPerStream * nDdsSamples
            /\ Len(last.ret.qStreamList[j + 1]) = nChannelsPerStream * nDdsSamples
            /\ \A c \in 0..((nDdsSamples \div nDdsSamplesPerCycle) - 1),
                  ch \in 0..(nChannelsPerStream - 1),
                  k \in 0..(nDdsSamplesPerCycle - 1) :
                  LET pos == (c * nChannelsPerStream + ch) * nDdsSamplesPerCycle + k
                      n   == c * nDdsSamplesPerCycle + k
                  IN  /\ last.ret.iStreamList[j + 1][pos + 1]
                            = ChannelSample(LastStreamTones(j).I, ch, n)
                      /\ last.ret.qStreamList[j + 1][pos + 1]
                            = ChannelSample(LastStreamTones(j).Q, ch, n)

C16_Witness ==
    /\ DdsReturned
    /\ LOFreq = [val |-> 16]
    /\ Cell(last.freqChannels, 0, 0) = 20
    /\ Cell(last.freqChannels, 1, 0) = 30
    /\ last.phaseList = None
    /\ last.ret.iStreamList[1] # InterweaveChannelMajor(ScaleTones(LastStreamTones(0).I))

\* the run of stream s (0-based) in channel slot ch, read back by the layout of
\* C16: sample n is at position (c * nChannelsPerStream + ch) * nDdsSamplesPerCycle + k
SlotRun(stream, ch) ==
    [n \in 1..nDdsSamples |->
        LET c == (n - 1) \div nDdsSamplesPerCycle
            k == (n - 1) % nDdsSamplesPerCycle
        IN  stream[(c * nChannelsPerStream + ch) * nDdsSamplesPerCycle + k + 1]]

\* the scaled tone of grid cell (ch, s): its returned residual frequency, at the
\* phase of that cell
CellTone(ch, s) ==
    Tones(<<Cell(last.ret.quantizedFreqList, ch, s)>>, ddsSampleRate, nDdsSamples,
          <<maxValue>>, <<Cell(LastPhasesUsed, ch, s)>>)

ZeroRun == [n \in 1..nDdsSamples |-> 0]

\* C17: channel slot ch of stream s carries the tone of grid cell (ch, s) when
\* the cell holds a real frequency, and zeros when it holds the pad value.
C17_OneTonePerRealCell ==
    DdsReturned =>
        \A s \in 0..(nStreams - 1), ch \in 0..(Rows(last.freqChannels) - 1) :
            IF Cell(last.freqChannels, ch, s) = freqPadValue
            THEN /\ SlotRun(last.ret.iStreamList[s + 1], ch) = ZeroRun
                 /\ SlotRun(last.ret.qStreamList[s + 1], ch) = ZeroRun
            ELSE /\ SlotRun(last.ret.iStreamList[s + 1], ch) = CellTone(ch, s).I[1]
                 /\ SlotRun(last.ret.qStreamList[s + 1], ch) = CellTone(ch, s).Q[1]

\* the bins of the last call are those generateFftChanSelection computes from
\* the same grid and LO
BinsFromSelection ==
    /\ DdsReturned
    /\ last.freqChannels # None
    /\ last.fftBinIndChannels = FftChanSelection(last.freqChannels, LOFreq.val)

\* C18: with the bins of generateFftChanSelection, every pad cell of the returned
\* residual grid holds -1 and every other cell a non-negative multiple of the
\* receive resolution ddsSampleRate / nDdsSamples.
C18_ResidualGrid ==
    BinsFromSelection =>
        \A k \in 1..Len(last.freqChannels.flat) :
            IF last.freqChannels.flat[k] = freqPadValue
            THEN last.ret.quantizedFreqList.flat[k] = ddsFreqPadValue
            ELSE /\ last.ret.quantizedFreqList.flat[k] >= 0
                 /\ last.ret.quantizedFreqList.flat[k] % ddsFreqResolution = 0

\* the residual of a cell below its bin centre, aliased up by ddsSampleRate
C18_Witness ==
    /\ BinsFromSelection
    /\ LOFreq = [val |-> 20]
    /\ Cell(last.freqChannels, 0, 0) = 16
    /\ Cell(last.fftBinIndChannels, 0, 0) = 2
    /\ Cell(last.ret.quantizedFreqList, 0, 0) = 12
    /\ Cell(last.freqChannels, 1, 0) = freqPadValue
    /\ Cell(last.ret.quantizedFreqList, 1, 0) = ddsFreqPadValue

\* the last call returned and its caller had supplied a phase grid
PhasesSupplied ==
    /\ DdsReturned
    /\ last.phaseList # None

\* the streams of a second call with the same grids and the returned phases
Resynthesis ==
    DdsTones(last.freqChannels, last.fftBinIndChannels, last.ret.phaseList).ret

\* C19: a supplied phase grid is not modified and is returned as it was, and a
\* second call with the same grids and the returned phases gives the same streams.
C19_PhasesReturnedAsSupplied ==
    PhasesSupplied =>
        /\ last.phaseAfter = last.phaseList
        /\ last.ret.phaseList = last.phaseList
        /\ Resynthesis.iStreamList = last.ret.iStreamList
        /\ Resynthesis.qStreamList = last.ret.qStreamList

\* the last call was a formatWaveForMem that returned its rows
PackReturned ==
    /\ last.op = "formatWaveForMem"
    /\ last.err = "none"

\* the row of samples is exactly as wide as the mems together
PackWidthsMatch ==
    last.nSamplesPerCycle * last.nBitsPerSamplePair = last.nMems * last.nBitsPerMemRow

\* the mem chunks of row r (1-based) put side by side, mem 0 first
WideRow(r) ==
    SumSeq([j \in 1..last.nMems |->
        ShiftLeft(last.ret[r][j], last.nBitsPerMemRow * (last.nMems - j))])

\* the nBitsPerSamplePair-wide field of sample t (1-based) sliced out of its row
PackedField(t) ==
    LET r == ((t - 1) \div last.nSamplesPerCycle) + 1
        c == ((t - 1) % last.nSamplesPerCycle) + 1
        shift == IF last.earlierSampleIsMsb
                 THEN last.nBitsPerSamplePair * (last.nSamplesPerCycle - c)
                 ELSE last.nBitsPerSamplePair * (c - 1)
    IN  MaskLow(ShiftRight(WideRow(r), shift), last.nBitsPerSamplePair)

\* C20: with matching widths, the mem chunks of each row, put side by side and
\* sliced into nBitsPerSamplePair-wide fields, hold the bits of I in the upper
\* half and the bits of Q in the lower half of every field, negative values
\* included.
C20_PackRoundTrip ==
    (PackReturned /\ PackWidthsMatch /\ Len(last.iVals) = Len(last.qVals)) =>
        \A t \in 1..Len(last.iVals) :
            LET h == last.nBitsPerSamplePair \div 2
            IN  /\ ShiftRight(PackedField(t), h) = MaskLow(last.iVals[t], h)
                /\ MaskLow(PackedField(t), h) = MaskLow(last.qVals[t], h)

\* the same for components that are all non-negative
PackRoundTripNonNegative ==
    (PackReturned /\ PackWidthsMatch /\ Len(last.iVals) = Len(last.qVals)
        /\ \A t \in 1..Len(last.iVals) : last.iVals[t] >= 0 /\ last.qVals[t] >= 0) =>
        \A t \in 1..Len(last.iVals) :
            LET h == last.nBitsPerSamplePair \div 2
            IN  /\ ShiftRight(PackedField(t), h) = MaskLow(last.iVals[t], h)
                /\ MaskLow(PackedField(t), h) = MaskLow(last.qVals[t], h)

\* the last call was a formatWaveForMem
PackCalled == last.op = "formatWaveForMem"

\* C21: formatWaveForMem fails and returns nothing whenever
\* nSamplesPerCycle * nBitsPerSamplePair differs from nMems * nBitsPerMemRow
\* (any error counts as the width error here).
C21_WidthMismatchFails ==
    (PackCalled /\ ~PackWidthsMatch) =>
        /\ last.err # "none"
        /\ last.ret = None

\* the bit offset of column c (0-based) of a row in the last call
ColumnOffset(c) ==
    IF last.earlierSampleIsMsb
    THEN (last.nSamplesPerCycle - 1 - c) * last.nBitsPerSamplePair
    ELSE c * last.nBitsPerSamplePair

\* the wide row r (0-based) of the last call: every sample pair, I above Q, put
\* at the offset of its column
WideRowOfSamples(r) ==
    SumSeq([c \in 1..last.nSamplesPerCycle |->
        LET t == r * last.nSamplesPerCycle + c
        IN  (BAt(last.iVals, t) * Pow2(last.nBitsPerSamplePair \div 2)
                + BAt(last.qVals, t)) * Pow2(ColumnOffset(c - 1))])

\* bits [lo, lo + width) of x
BitsOf(x, lo, width) == (x \div Pow2(lo)) % Pow2(width)

\* C22: the sample at column c sits at bit offset
\* (nSamplesPerCycle - 1 - c) * nBitsPerSamplePair if earlierSampleIsMsb is set and
\* c * nBitsPerSamplePair otherwise, and mem j receives bits
\* [(nMems - 1 - j) * nBitsPerMemRow, (nMems - j) * nBitsPerMemRow) of the wide
\* row, mem 0 the most significant chunk.
C22_BitLayout ==
    PackReturned =>
        \A r \in 0..(Len(last.ret) - 1), j \in 0..(last.nMems - 1) :
            last.ret[r + 1][j + 1] =
                BitsOf(WideRowOfSamples(r), (last.nMems - 1 - j) * last.nBitsPerMemRow,
                       last.nBitsPerMemRow)

\* earlierSampleIsMsb set, two mems: the earlier sample is in mem 0
C22_Witness ==
    /\ PackReturned
    /\ last.earlierSampleIsMsb
    /\ last.iVals = <<1, 2>>
    /\ last.qVals = <<1, 1>>
    /\ last.nMems = 2
    /\ last.ret = <<<<17, 33>>>>

\* the last call was loadChanSelection on a grid given by the caller
ChanSelectionLoaded ==
    /\ last.op = "loadChanSelection"
    /\ last.fftBinIndChannels # None

\* the channel numbers the last call loaded: chanSelLoad written (chanNum << 1) + 1
ChannelsLoaded ==
    {fpgaLog[k].val \div 2 :
        k \in {n \in 1..Len(fpgaLog) :
                  /\ fpgaLog[n].kind = "write"
                  /\ fpgaLog[n].reg = "chanSelLoad"
                  /\ fpgaLog[n].val % 2 = 1}}

\* C26: loadChanSelection loads only the channel numbers 0 .. nChannelsPerStream - 1,
\* and for a grid of more rows it warns and stops before loading any other.
C26_ChannelsInRange ==
    ChanSelectionLoaded =>
        /\ \A ch \in ChannelsLoaded : ch < nChannelsPerStream
        /\ (last.err = "none" /\ Rows(last.fftBinIndChannels) > nChannelsPerStream)
              => "TooManyFreqs" \in last.warns

\* the last call was a loadDacLUT that ran to its end on a comb given by the caller
DacLUTLoaded ==
    /\ last.op = "loadDacLUT"
    /\ last.err = "none"
    /\ last.combDict # None

\* the byte strings of the BRAM dumps of the last operation, in order
IsLutDump(e) == e.kind = "blindwrite" /\ e.reg = "lutBram"

DumpsSent ==
    LET dumps == SelectSeq(fpgaLog, IsLutDump)
    IN  [d \in 1..Len(dumps) |-> dumps[d].data]

\* the 16-bit values a byte string holds, low byte first, read as signed
ValuesOfBytes(bytes) ==
    [k \in 1..(Len(bytes) \div 2) |->
        LET u == bytes[2 * k - 1] + 256 * bytes[2 * k]
        IN  IF u >= 32768 THEN u - 65536 ELSE u]

\* Q then I of every sample of the comb
ValuesToSend(comb) ==
    Concat([k \in 1..Len(comb.I) |-> <<comb.Q[k], comb.I[k]>>])

\* C25: the dumps of loadDacLUT carry every interleaved 16-bit value (Q then I)
\* once and in order, a last partial dump included, and no dump is longer than
\* lut_dump_buffer_size bytes.
C25_EveryValueDumped ==
    DacLUTLoaded =>
        /\ ValuesOfBytes(Concat(DumpsSent)) = ValuesToSend(last.combDict)
        /\ \A d \in 1..Len(DumpsSent) : Len(DumpsSent[d]) <= lut_dump_buffer_size

\* the same when twice the value count is a multiple of an even buffer size
DumpsCompleteWhenDivisible ==
    (/\ DacLUTLoaded
     /\ lut_dump_buffer_size % 2 = 0
     /\ (4 * Len(last.combDict.I)) % lut_dump_buffer_size = 0) =>
        /\ ValuesOfBytes(Concat(DumpsSent)) = ValuesToSend(last.combDict)
        /\ \A d \in 1..Len(DumpsSent) : Len(DumpsSent[d]) <= lut_dump_buffer_size

\* the last call was a loadDdsLUT that wrote every stream's memory
DdsLUTLoaded ==
    /\ last.op = "loadDdsLUT"
    /\ last.err = "none"

\* one stream row is as wide as one memory row
StreamRowFitsMemRow ==
    nDdsSamplesPerCycle * nBitsPerDdsSamplePair = nBytesPerQdrSample * 8

\* the values handed to writeQdr for stream i (0-based), read back from the
\* words in the memory: the roll and the flip undone
ValuesInQdr(i) ==
    LET words == fpga.qdr[i + 1]
        n     == Len(words)
    IN  [k \in 1..n |-> QdrFlip(words[((k + n - 2) % n) + 1])]

\* row r (0-based) of stream i (0-based) packed: the pair (I << half) + Q of each
\* sample, the earlier sample in the higher bits, cut to the width of the row
PackedStreamRow(i, r) ==
    BitsOf(SumSeq([c \in 1..nDdsSamplesPerCycle |->
               (ddsIStreamsList[i + 1][r * nDdsSamplesPerCycle + c]
                       * Pow2(nBitsPerDdsSamplePair \div 2)
                   + ddsQStreamsList[i + 1][r * nDdsSamplesPerCycle + c])
                   * Pow2((nDdsSamplesPerCycle - c) * nBitsPerDdsSamplePair)]),
           0, nDdsSamplesPerCycle * nBitsPerDdsSamplePair)

\* C27: when a stream row is as wide as a memory row, the values loadDdsLUT
\* writes to the memory of stream i are the packed rows of stream i.
C27_StreamMemoryHoldsSamples ==
    (DdsLUTLoaded /\ StreamRowFitsMemRow) =>
        \A i \in 0..(nDdsMems - 1) :
            /\ Len(fpga.qdr[i + 1]) = Len(ddsIStreamsList[i + 1]) \div nDdsSamplesPerCycle
            /\ \A r \in 0..(Len(fpga.qdr[i + 1]) - 1) :
                  ValuesInQdr(i)[r + 1] = PackedStreamRow(i, r)

\* what is written instead: bits of the row above the samples, all alike
OnlyExtensionBitsWritten ==
    DdsLUTLoaded =>
        \A i \in 0..(nDdsMems - 1) :
            \A r \in 1..Len(fpga.qdr[i + 1]) :
                ValuesInQdr(i)[r] \in {0, Pow2(QdrWordBits) - 1}

UartOperations == {"initializeV7UART", "loadDacLUT", "loadLOFreq", "changeAtten"}

\* the places of the log where a transmit pulse starts: txEnUART written 1
PulsesIn(log) ==
    {n \in 1..Len(log) : log[n].kind = "write" /\ log[n].reg = "txEnUART" /\ log[n].val = 1}

\* before the pulse at n, and after the pulse before it, v7Ready was read non-zero
ReadySincePreviousPulse(log, n) ==
    \E m \in 1..(n - 1) :
        /\ log[m].kind = "read" /\ log[m].reg = "v7Ready" /\ log[m].val # 0
        /\ \A p \in PulsesIn(log) : p < n => p < m

\* every pulse of the log is txEnUART written 1 then 0, after a fresh ready
HandshakeKept(log) ==
    \A n \in PulsesIn(log) :
        /\ ReadySincePreviousPulse(log, n)
        /\ n < Len(log)
        /\ log[n + 1] = WriteInt("txEnUART", 0)

\* C28: in every operation that sends to the V7, each transmit pulse comes after
\* v7Ready has been read non-zero since the previous pulse, the local flag is
\* cleared again, and txEnUART is 0 when the operation returns.
C28_PulseOnlyWhenReady ==
    (last.op \in UartOperations /\ last.err = "none") =>
        /\ HandshakeKept(fpgaLog)
        /\ v7_ready = 0
        /\ fpga.ints["txEnUART"] = 0

\* the same for the operations other than initializeV7UART
HandshakeAfterInitialize ==
    (last.op \in UartOperations \ {"initializeV7UART"} /\ last.err = "none") =>
        /\ HandshakeKept(fpgaLog)
        /\ PulsesIn(fpgaLog) # {}
        /\ v7_ready = 0
        /\ fpga.ints["txEnUART"] = 0

\* C24: every bin index generateFftChanSelection returns is below nFftBins; a
\* frequency whose DAC frequency lies within half a bin spacing below
\* dacSampleRate is not given the index nFftBins.
C24_BinsBelowBinCount ==
    BinsReturned =>
        \A k \in 1..Len(last.ret.flat) : last.ret.flat[k] < nFftBins


\* the operations that plan frequencies, tones and memory rows
PlanningOperations ==
    {"generateResonatorChannels", "generateFftChanSelection", "generateTones",
     "generateDacComb", "generateDdsTones", "formatWaveForMem"}

\* C23: a planning operation (generateResonatorChannels, generateFftChanSelection,
\* generateTones, generateDacComb, generateDdsTones, formatWaveForMem) reads and
\* writes no register or memory of the device and polls no ready flag: across
\* its step the device contents, the accesses made and v7_ready are unchanged.
C23_PlanningLeavesDevice ==
    [][last'.op \in PlanningOperations => UNCHANGED <<fpga, fpgaLog, v7_ready>>]_vars

\* a planning operation has returned on a connected object whose last hardware
\* operation made accesses
C23_Witness ==
    /\ last.op \in PlanningOperations
    /\ last.err = "none"
    /\ fpga # None
    /\ fpgaLog # <<>>
====
